---- MODULE Spec2Model ----
(***************************************************************************)
(* Metrics pipeline of the sales dashboard (src/app_dashboard.py) and of   *)
(* the batch report (src/marketing_analysis_script.py).                    *)
(*                                                                         *)
(* One rendering pass of the dashboard is one action: Streamlit re-runs    *)
(* the whole script on every widget change, so a pass reads the cached     *)
(* dataset and the widget state and recomputes every derived table.        *)
(*                                                                         *)
(* Numbers are pandas float64 values.  A finite value is kept as an exact  *)
(* fraction in lowest terms; +inf, -inf and NaN are values of their own    *)
(* and follow IEEE-754 arithmetic as numpy applies it (x/0, 0/0, inf-inf,  *)
(* 0*inf).  Binary rounding of finite results and the sign of zero are     *)
(* not modelled.                                                           *)
(***************************************************************************)
EXTENDS Integers, Sequences, FiniteSets, TLC

----------------------------------------------------------------------------
(* float64 values *)

Abs(i) == IF i < 0 THEN -i ELSE i

RECURSIVE GCD(_, _)
GCD(a, b) == IF b = 0 THEN a ELSE GCD(b, a % b)

NaN  == [k |-> "nan",  n |-> 0, d |-> 1]
Inf  == [k |-> "inf",  n |-> 0, d |-> 1]
NInf == [k |-> "ninf", n |-> 0, d |-> 1]

\* the finite value n/d (d # 0), in lowest terms with a positive denominator
Frac(n, d) ==
    LET s == IF d < 0 THEN -1 ELSE 1
        g == GCD(Abs(n), Abs(d))
    IN  [k |-> "fin", n |-> (s * n) \div g, d |-> (s * d) \div g]

Num(i) == [k |-> "fin", n |-> i, d |-> 1]

IsFin(x) == x.k = "fin"
IsNaN(x) == x.k = "nan"
IsInfinite(x) == x.k \in {"inf", "ninf"}

\* -1, 0 or 1 for any value but NaN
Sign(x) ==
    CASE x.k = "inf"  -> 1
      [] x.k = "ninf" -> -1
      [] OTHER        -> IF x.n > 0 THEN 1 ELSE IF x.n < 0 THEN -1 ELSE 0

Signed(s) == IF s > 0 THEN Inf ELSE NInf

FNeg(x) ==
    CASE x.k = "nan"  -> NaN
      [] x.k = "inf"  -> NInf
      [] x.k = "ninf" -> Inf
      [] OTHER        -> Frac(-x.n, x.d)

FAdd(x, y) ==
    CASE IsNaN(x) \/ IsNaN(y)         -> NaN
      [] IsInfinite(x) /\ IsInfinite(y) -> IF x.k = y.k THEN x ELSE NaN
      [] IsInfinite(x)                -> x
      [] IsInfinite(y)                -> y
      [] OTHER                        -> Frac(x.n * y.d + y.n * x.d, x.d * y.d)

FSub(x, y) == FAdd(x, FNeg(y))

FMul(x, y) ==
    CASE IsNaN(x) \/ IsNaN(y)         -> NaN
      [] IsInfinite(x) \/ IsInfinite(y) ->
            IF Sign(x) * Sign(y) = 0 THEN NaN ELSE Signed(Sign(x) * Sign(y))
      [] OTHER                        -> Frac(x.n * y.n, x.d * y.d)

\* numpy true division: x/0 is +-inf, 0/0 is NaN, and no error is raised
FDiv(x, y) ==
    CASE IsNaN(x) \/ IsNaN(y)         -> NaN
      [] IsInfinite(x) /\ IsInfinite(y) -> NaN
      [] IsInfinite(x)                -> Signed(Sign(x) * (IF Sign(y) < 0 THEN -1 ELSE 1))
      [] IsInfinite(y)                -> Num(0)
      [] y.n = 0                      -> IF x.n = 0 THEN NaN ELSE Signed(Sign(x))
      [] OTHER                        -> Frac(x.n * y.d, x.d * y.n)

\* x < y, x <= y; every comparison with NaN is false
FLt(x, y) ==
    CASE IsNaN(x) \/ IsNaN(y) -> FALSE
      [] x.k = "inf"          -> FALSE
      [] y.k = "ninf"         -> FALSE
      [] x.k = "ninf"         -> TRUE
      [] y.k = "inf"          -> TRUE
      [] OTHER                -> x.n * y.d < y.n * x.d

FLe(x, y) == FLt(x, y) \/ (~IsNaN(x) /\ x = y)
FGt(x, y) == FLt(y, x)
FGe(x, y) == FLe(y, x)

\* Series.replace(olds, new) and Series.fillna(new) on one element
Replace(x, olds, new) == IF x \in olds THEN new ELSE x
FillNa(x, new) == IF IsNaN(x) THEN new ELSE x

\* Series.sum(): NaN is skipped, the empty sum is 0
RECURSIVE SumSeq(_)
SumSeq(s) ==
    IF s = << >> THEN Num(0)
    ELSE FAdd(IF IsNaN(Head(s)) THEN Num(0) ELSE Head(s), SumSeq(Tail(s)))

----------------------------------------------------------------------------
(* cells of the CSV files and their cleaning (load_data) *)

\* A missing categorical value (pandas NaN in an object column).
NA == "<NaN>"

\* A cell of a numeric-looking column as read_csv hands it over: a number, a
\* text (a sequence of characters) or a missing value.
NumCell(x)  == [t |-> "num",  v |-> x,   s |-> << >>]
TextCell(s) == [t |-> "text", v |-> NaN, s |-> s]
NaCell      == [t |-> "na",   v |-> NaN, s |-> << >>]

DigitVal(c) ==
    CASE c = "0" -> 0 [] c = "1" -> 1 [] c = "2" -> 2 [] c = "3" -> 3
      [] c = "4" -> 4 [] c = "5" -> 5 [] c = "6" -> 6 [] c = "7" -> 7
      [] c = "8" -> 8 [] c = "9" -> 9

\* str.replace(c, '')
RemoveChar(s, c) == SelectSeq(s, LAMBDA x : x # c)

RECURSIVE LStrip(_)
LStrip(s) == IF s # << >> /\ Head(s) = " " THEN LStrip(Tail(s)) ELSE s

RECURSIVE RStrip(_)
RStrip(s) ==
    IF s # << >> /\ s[Len(s)] = " " THEN RStrip(SubSeq(s, 1, Len(s) - 1)) ELSE s

RECURSIVE DigitsValue(_)
DigitsValue(s) ==
    IF s = << >> THEN 0
    ELSE 10 * DigitsValue(SubSeq(s, 1, Len(s) - 1)) + DigitVal(s[Len(s)])

RECURSIVE Pow10(_)
Pow10(e) == IF e = 0 THEN 1 ELSE 10 * Pow10(e - 1)

AllDigits(s) ==
    \A i \in 1..Len(s) : s[i] \in {"0", "1", "2", "3", "4", "5", "6", "7", "8", "9"}

\* the value of digits ip, a point and digits fp
DecimalValue(ip, fp) ==
    Frac(DigitsValue(ip) * Pow10(Len(fp)) + DigitsValue(fp), Pow10(Len(fp)))

\* an unsigned literal u whose first point (if any) is at position p
ParseUnsigned(u, p) ==
    IF /\ AllDigits(SubSeq(u, 1, p - 1)) /\ AllDigits(SubSeq(u, p + 1, Len(u)))
       /\ Len(u) > 0 /\ (p > Len(u) \/ Len(u) > 1)
    THEN [ok |-> TRUE, v |-> DecimalValue(SubSeq(u, 1, p - 1), SubSeq(u, p + 1, Len(u)))]
    ELSE [ok |-> FALSE, v |-> NaN]

FirstPoint(u) ==
    IF \E i \in 1..Len(u) : u[i] = "."
    THEN CHOOSE i \in 1..Len(u) : u[i] = "." /\ \A j \in 1..(i - 1) : u[j] # "."
    ELSE Len(u) + 1

ParseSigned(t) ==
    IF t # << >> /\ Head(t) = "-"
    THEN [ParseUnsigned(Tail(t), FirstPoint(Tail(t))) EXCEPT !.v = FNeg(@)]
    ELSE IF t # << >> /\ Head(t) = "+" THEN ParseUnsigned(Tail(t), FirstPoint(Tail(t)))
    ELSE ParseUnsigned(t, FirstPoint(t))

\* Python's float(text) for the decimal literals [ws][sign]digits[.digits][ws];
\* any other text raises ValueError (ok = FALSE).
PyFloat(s) == ParseSigned(RStrip(LStrip(s)))

\* clean_money(val): a text loses its commas and goes through float(), which
\* may raise; any other value (a number, NaN) is returned as it is.
clean_money(c) ==
    IF c.t = "text" THEN PyFloat(RemoveChar(c.s, ","))
    ELSE [ok |-> TRUE, v |-> c.v]

\* pd.to_numeric(col, errors='coerce').fillna(0) on one cell: no comma is
\* removed, and what does not parse becomes NaN and then 0.
to_numeric_fill0(c) ==
    IF c.t = "text" THEN FillNa(PyFloat(c.s).v, Num(0)) ELSE FillNa(c.v, Num(0))

\* the sentinel labels of load_data ('mijijeong' = unassigned, 'gita' = other)
SELLER_FILL  == "unassigned"
VARIETY_FILL == "other"

fillna_str(x, label) == IF x = NA THEN label ELSE x

\* One row of load_data's result.  Only seller and variety are filled;
\* region, channel, UID and order id keep a missing value.
clean_row(r) ==
    [ seller    |-> fillna_str(r.seller, SELLER_FILL),
      variety   |-> fillna_str(r.variety, VARIETY_FILL),
      region    |-> r.region,
      channel   |-> r.channel,
      uid       |-> r.uid,
      order_id  |-> r.order_id,
      ts        |-> r.ts,
      paid      |-> clean_money(r.paid).v,
      supply    |-> clean_money(r.supply).v,
      net       |-> to_numeric_fill0(r.net),
      ordered   |-> to_numeric_fill0(r.ordered),
      cancelled |-> to_numeric_fill0(r.cancelled) ]

\* load_data raises when float() does (no except clause around clean_money)
load_raises(raw) ==
    \E i \in 1..Len(raw) : ~clean_money(raw[i].paid).ok \/ ~clean_money(raw[i].supply).ok

load_data(raw) == [i \in 1..Len(raw) |-> clean_row(raw[i])]

----------------------------------------------------------------------------
(* ordering of labels, grouping, sorting *)

\* Every label of the model in Python's string order (groupby sorts its keys,
\* sorted() sorts the filter options).  The Korean sentinels sort after the
\* ASCII names.
KeyOrder ==
    << "A", "App", "B", "C", "R1", "R2",
       "S01", "S02", "S03", "S04", "S05", "S06", "S07", "S08", "S09", "S10", "S11", "S12", "S13",
       "V", "W", "Web",
       "u1", "u2", "u3", "u4", "u5", "u6", "u7", "u8",
       "other", "other (outside Top 10)", "unassigned" >>

KeyRank(x) == CHOOSE i \in 1..Len(KeyOrder) : KeyOrder[i] = x

RECURSIVE SortedKeys(_)
SortedKeys(S) ==
    IF S = {} THEN << >>
    ELSE LET m == CHOOSE x \in S : \A y \in S : KeyRank(x) <= KeyRank(y)
         IN  <<m>> \o SortedKeys(S \ {m})

Column(rows, f) == [i \in 1..Len(rows) |-> rows[i][f]]

\* df.groupby(f): the keys in sorted order, rows with a missing key dropped
GroupKeys(rows, f) == SortedKeys({rows[i][f] : i \in 1..Len(rows)} \ {NA})
GroupRows(rows, f, key) == SelectSeq(rows, LAMBDA r : r[f] = key)

\* ['col'].sum(), .count() of a label column, .nunique()
SumOf(rows, f)     == SumSeq(Column(rows, f))
CountOf(rows, f)   == Len(SelectSeq(rows, LAMBDA r : r[f] # NA))
NUniqueOf(rows, f) == Cardinality({rows[i][f] : i \in 1..Len(rows)} \ {NA})

\* variant: among equal values the last position of the table comes first
RECURSIVE LargestLast(_, _, _)
LargestLast(t, f, left) ==
    IF left = {} THEN << >>
    ELSE LET m == CHOOSE i \in left :
                    \A j \in left : \/ FGt(t[i][f], t[j][f])
                                    \/ (t[i][f] = t[j][f] /\ i >= j)
         IN  <<m>> \o LargestLast(t, f, left \ {m})

\* The positions of a table whose column f is largest first; rows with equal
\* values keep their table order (Series.nlargest, keep='first').
RECURSIVE LargestFirst(_, _, _)
LargestFirst(t, f, left) ==
    IF left = {} THEN << >>
    ELSE LET m == CHOOSE i \in left :
                    \A j \in left : \/ FGt(t[i][f], t[j][f])
                                    \/ (t[i][f] = t[j][f] /\ i <= j)
         IN  <<m>> \o LargestFirst(t, f, left \ {m})

Take(s, n) == SubSeq(s, 1, IF Len(s) < n THEN Len(s) ELSE n)

\* the program's "top 10"
TOP_N == 10

\* the rows of table t in the order ord of their positions
Reorder(t, ord) == [i \in 1..Len(ord) |-> t[ord[i]]]

\* table t sorted by column f, largest first
SortDesc(t, f) == Reorder(t, LargestFirst(t, f, 1..Len(t)))

\* df.groupby(f)['paid'].sum(): one row per key, in key order
SalesBy(rows, f, keys) ==
    [i \in 1..Len(keys) |->
        [key |-> keys[i], sales |-> SumOf(GroupRows(rows, f, keys[i]), "paid")]]

\* df.groupby(f)['paid'].sum().nlargest(10).index.tolist()
TopKeys(rows, f) == Column(Take(SortDesc(SalesBy(rows, f, GroupKeys(rows, f)), "sales"), TOP_N), "key")

SeqToSet(s) == {s[i] : i \in 1..Len(s)}

OTHER_LABEL == "other (outside Top 10)"

\* variant: no catch-all label
filter_label_keeping_name(x, top) == x

\* df['seller_filter'], df['variety_filter']
filter_label(x, top) == IF x \in SeqToSet(top) THEN x ELSE OTHER_LABEL

\* sorted(top10) + [OTHER_LABEL]
filter_options(top) == SortedKeys(SeqToSet(top)) \o <<OTHER_LABEL>>

----------------------------------------------------------------------------
(* the filtered subset and its row-level fields (lines 170-186) *)

\* one day of the order timestamp's unit (half days)
DayTicks == 2

\* df['order_date'] = df['order_ts'].dt.date
order_date(r) == r.ts \div DayTicks

mask(r, dr, sel_sellers, sel_varieties, top_s, top_v) ==
    /\ order_date(r) >= dr[1] /\ order_date(r) <= dr[2]
    /\ (sel_sellers # {} => filter_label(r.seller, top_s) \in sel_sellers)
    /\ (sel_varieties # {} => filter_label(r.variety, top_v) \in sel_varieties)

\* variant: the unit cost taken over the net quantity
unit_supply_price_by_net(r) ==
    FillNa(Replace(FDiv(r.supply, r.net), {Inf, NInf}, Num(0)), Num(0))

unit_supply_price(r) ==
    FillNa(Replace(FDiv(r.supply, r.ordered), {Inf, NInf}, Num(0)), Num(0))

\* variant: the unit cost applied to the ordered quantity
profit_by_ordered(r) == FSub(r.paid, FMul(unit_supply_price(r), r.ordered))

profit(r) == FSub(r.paid, FMul(unit_supply_price(r), r.net))

\* variant: only +inf replaced, as the grouped summaries do
margin_pct_replacing_inf(r) ==
    FillNa(Replace(FMul(FDiv(profit(r), r.paid), Num(100)), {Inf}, Num(0)), Num(0))

margin_pct(r) ==
    FillNa(Replace(FMul(FDiv(profit(r), r.paid), Num(100)), {Inf, NInf}, Num(0)), Num(0))

\* a row of filtered_df: the cleaned row and its three derived fields
derive(r) ==
    [ seller |-> r.seller, variety |-> r.variety, region |-> r.region,
      channel |-> r.channel, uid |-> r.uid, order_id |-> r.order_id, ts |-> r.ts,
      paid |-> r.paid, supply |-> r.supply, net |-> r.net,
      ordered |-> r.ordered, cancelled |-> r.cancelled,
      unit_supply_price |-> unit_supply_price(r),
      profit |-> profit(r),
      margin_pct |-> margin_pct(r) ]

derive_all(kept) == [i \in 1..Len(kept) |-> derive(kept[i])]

filter_with(data, dr, sel_sellers, sel_varieties, top_s, top_v) ==
    derive_all(SelectSeq(data, LAMBDA r : mask(r, dr, sel_sellers, sel_varieties, top_s, top_v)))

filter_and_derive(data, dr, sel_sellers, sel_varieties) ==
    filter_with(data, dr, sel_sellers, sel_varieties,
                TopKeys(data, "seller"), TopKeys(data, "variety"))

----------------------------------------------------------------------------
(* tab_customer: RFM scoring and segmentation (lines 421-452) *)

MaxOf(S) == CHOOSE x \in S : \A y \in S : y <= x

\* one row of customer_rfm from a customer's own orders
customer_row(uid, own, latest_date) ==
    [ uid       |-> uid,
      Recency   |-> Num((latest_date - MaxOf({own[j].ts : j \in 1..Len(own)})) \div DayTicks),
      Frequency |-> Num(CountOf(own, "order_id")),
      Monetary  |-> SumOf(own, "paid"),
      R_Score |-> 0, F_Score |-> 0, M_Score |-> 0, Segment |-> "" ]

customer_rows(rows, uids, latest_date) ==
    [i \in 1..Len(uids) |-> customer_row(uids[i], GroupRows(rows, "uid", uids[i]), latest_date)]

\* filtered_df.groupby('UID').agg(Recency, Frequency, Monetary): one row per
\* customer in UID order; Recency is (latest_date - last order).days, where
\* latest_date is the last order of the subset plus one day
customer_aggregate(rows) ==
    customer_rows(rows, GroupKeys(rows, "uid"),
                  MaxOf({rows[i].ts : i \in 1..Len(rows)}) + DayTicks)

\* variant: Series.rank(method='min'), equal values sharing the lowest rank
rank_min(vals, i) == 1 + Cardinality({j \in 1..Len(vals) : FLt(vals[j], vals[i])})

\* Series.rank(method='first'): ascending, equal values ranked in the order
\* they appear in the Series
rank_first(vals, i) ==
    1 + Cardinality({j \in 1..Len(vals) : FLt(vals[j], vals[i])})
      + Cardinality({j \in 1..Len(vals) : j < i /\ vals[j] = vals[i]})

\* number of quantile buckets asked of qcut
Q == 5

\* the bin edges of qcut(ranks, 5): the quantiles k/5 of the ranks 1..n by
\* linear interpolation, 1 + (n-1)k/5
qcut_edges(n) == [k \in 0..Q |-> Frac(Q + (n - 1) * k, Q)]

\* qcut raises ValueError ("Bin edges must be unique") when two edges are
\* equal; with no value at all the edges are all NaN, hence equal
qcut_raises(n) ==
    n = 0 \/ Cardinality({qcut_edges(n)[k] : k \in 0..Q}) < Q + 1

\* the bucket 1..5 of rank r among n: intervals closed on the right, the
\* first one including the lowest edge
qcut_bucket(r, n) ==
    CHOOSE k \in 1..Q :
        /\ FLe(Num(r), qcut_edges(n)[k])
        /\ \A j \in 1..(k - 1) : ~FLe(Num(r), qcut_edges(n)[j])

\* variant: the labels of Recency in the order of the other two measures
LABELS_NOT_INVERTED == <<1, 2, 3, 4, 5>>

R_LABELS == <<5, 4, 3, 2, 1>>
FM_LABELS == <<1, 2, 3, 4, 5>>

qcut_score(vals, i, labels) == labels[qcut_bucket(rank_first(vals, i), Len(vals))]

\* the five segment labels (VIP, loyal, new, at-risk, regular customer)
SEG_VIP     == "VIP"
SEG_LOYAL   == "Loyal"
SEG_NEW     == "New"
SEG_AT_RISK == "At-risk"
SEG_REGULAR == "Regular"

\* variant: the recency rules tried before the total-score rules
segment_customer_recency_first(R, F, M) ==
    IF R >= 4 THEN SEG_NEW
    ELSE IF R <= 2 THEN SEG_AT_RISK
    ELSE IF R + F + M >= 13 THEN SEG_VIP
    ELSE IF R + F + M >= 10 THEN SEG_LOYAL
    ELSE SEG_REGULAR

\* variant: a customer seen long ago is at risk whatever the total
segment_customer_at_risk_first(R, F, M) ==
    IF R <= 2 THEN SEG_AT_RISK
    ELSE IF R + F + M >= 13 THEN SEG_VIP
    ELSE IF R + F + M >= 10 THEN SEG_LOYAL
    ELSE IF R >= 4 THEN SEG_NEW
    ELSE SEG_REGULAR

segment_customer(R, F, M) ==
    LET Total_Score == R + F + M
    IN  IF Total_Score >= 13 THEN SEG_VIP
        ELSE IF Total_Score >= 10 THEN SEG_LOYAL
        ELSE IF R >= 4 THEN SEG_NEW
        ELSE IF R <= 2 THEN SEG_AT_RISK
        ELSE SEG_REGULAR

with_scores(t, rec, frq, mon) ==
    [i \in 1..Len(t) |->
        [t[i] EXCEPT !.R_Score = qcut_score(rec, i, R_LABELS),
                     !.F_Score = qcut_score(frq, i, FM_LABELS),
                     !.M_Score = qcut_score(mon, i, FM_LABELS)]]

\* rfm_score(customer_rfm): the three score columns
rfm_score(t) ==
    with_scores(t, Column(t, "Recency"), Column(t, "Frequency"), Column(t, "Monetary"))

\* customer_rfm['Segment'] = customer_rfm.apply(segment_customer, axis=1)
apply_segment(t) ==
    [i \in 1..Len(t) |->
        [t[i] EXCEPT !.Segment = segment_customer(t[i].R_Score, t[i].F_Score, t[i].M_Score)]]

----------------------------------------------------------------------------
(* tab2: seller summary; tab5: variety summary (lines 516-532, 764-768) *)

Pct(x, y) == FMul(FDiv(x, y), Num(100))

\* only +inf is replaced in these three ratios, and the last one fills NaN
\* with 1
seller_margin(g)     == FillNa(Replace(Pct(g.profit, g.sales), {Inf}, Num(0)), Num(0))
seller_cancel(g)     == FillNa(Replace(Pct(g.cancelled, g.ordered), {Inf}, Num(0)), Num(0))
seller_repurchase(g) ==
    FillNa(Replace(FDiv(Num(g.order_count), Num(g.unique_customers)), {Inf}, Num(0)), Num(1))

seller_sums(key, own) ==
    [ seller |-> key,
      sales |-> SumOf(own, "paid"),
      profit |-> SumOf(own, "profit"),
      ordered |-> SumOf(own, "ordered"),
      cancelled |-> SumOf(own, "cancelled"),
      unique_customers |-> NUniqueOf(own, "uid"),
      order_count |-> CountOf(own, "order_id") ]

seller_ratios(g) ==
    [ seller |-> g.seller, sales |-> g.sales, profit |-> g.profit,
      ordered |-> g.ordered, cancelled |-> g.cancelled,
      unique_customers |-> g.unique_customers, order_count |-> g.order_count,
      margin_pct |-> seller_margin(g),
      cancel_rate |-> seller_cancel(g),
      repurchase_index |-> seller_repurchase(g) ]

seller_rows(rows, keys) ==
    [i \in 1..Len(keys) |-> seller_ratios(seller_sums(keys[i], GroupRows(rows, "seller", keys[i])))]

\* seller_deep, sorted by sales, largest first
seller_deep_of(rows) == SortDesc(seller_rows(rows, GroupKeys(rows, "seller")), "sales")

\* no infinity is replaced here
variety_margin(g) == FillNa(Pct(g.profit, g.sales), Num(0))

variety_sums(key, own) ==
    [ variety |-> key, sales |-> SumOf(own, "paid"), profit |-> SumOf(own, "profit"),
      order_count |-> CountOf(own, "order_id") ]

variety_ratios(g) ==
    [ variety |-> g.variety, sales |-> g.sales, profit |-> g.profit,
      order_count |-> g.order_count, margin_pct |-> variety_margin(g) ]

variety_rows(rows, keys) ==
    [i \in 1..Len(keys) |-> variety_ratios(variety_sums(keys[i], GroupRows(rows, "variety", keys[i])))]

variety_stats_of(rows) == SortDesc(variety_rows(rows, GroupKeys(rows, "variety")), "sales")

----------------------------------------------------------------------------
(* concentration index (lines 611-640, 717-719, 880-887) *)

Square(x) == FMul(x, x)

\* variant: shares as fractions of 1 instead of percentages
squared_fractions(vals, total) ==
    SumSeq([i \in 1..Len(vals) |-> Square(FDiv(vals[i], total))])

\* sum of ((x / total * 100) ** 2); Series.sum() skips NaN
squared_shares(vals, total) ==
    SumSeq([i \in 1..Len(vals) |-> Square(Pct(vals[i], total))])

\* own.groupby(f)['paid'].sum(): the sums in key order
sales_by(own, f, keys) == [i \in 1..Len(keys) |-> SumOf(GroupRows(own, f, keys[i]), "paid")]

channel_sales_of(seller_data) == sales_by(seller_data, "channel", GroupKeys(seller_data, "channel"))

\* the body of calculate_channel_hhi once seller_data and channel_sales are
\* known
hhi_of_channels(seller_data, channel_sales) ==
    IF Len(seller_data) = 0 THEN Num(0)
    ELSE IF SumSeq(channel_sales) = Num(0) THEN Num(0)
    ELSE squared_shares(channel_sales, SumSeq(channel_sales))

calculate_channel_hhi(rows, seller) ==
    hhi_of_channels(GroupRows(rows, "seller", seller),
                    channel_sales_of(GroupRows(rows, "seller", seller)))

BAND_HIGH       == "high concentration"
BAND_FRAGMENTED == "fragmented"
BAND_BALANCED   == "balanced"

HHI_HIGH == 5000
HHI_LOW  == 2000

\* the first advice of generate_strategy
strategy_band(hhi) ==
    IF FGt(hhi, Num(HHI_HIGH)) THEN BAND_HIGH
    ELSE IF FLt(hhi, Num(HHI_LOW)) THEN BAND_FRAGMENTED
    ELSE BAND_BALANCED

\* the caption under the HHI metric: "5000 or more: high concentration /
\* 2000 or less: dispersed"
caption_band(hhi) ==
    IF FGe(hhi, Num(HHI_HIGH)) THEN BAND_HIGH
    ELSE IF FLe(hhi, Num(HHI_LOW)) THEN BAND_FRAGMENTED
    ELSE BAND_BALANCED

\* number of sellers preselected in the HHI multiselect
DEFAULT_SELECTED == 5

profit_margin(total_sales, total_profit) ==
    IF FGt(total_sales, Num(0)) THEN Pct(total_profit, total_sales) ELSE Num(0)

analysis_entry(seller, seller_df, hhi) ==
    [ seller |-> seller, HHI |-> hhi,
      sales |-> SumOf(seller_df, "paid"),
      margin |-> profit_margin(SumOf(seller_df, "paid"), SumOf(seller_df, "profit")),
      channel_sales |-> channel_sales_of(seller_df),
      strategy |-> strategy_band(hhi),
      caption |-> caption_band(hhi) ]

\* one entry of analysis_data, with the band of its strategy and of its caption
analysis_row(rows, seller) ==
    analysis_entry(seller, GroupRows(rows, "seller", seller), calculate_channel_hhi(rows, seller))

selected_rows(rows, selected) ==
    [i \in 1..Len(selected) |-> analysis_row(rows, selected[i].seller)]

\* analysis_data for the sellers the multiselect preselects
analysis_data_of(rows, deep) == selected_rows(rows, Take(deep, DEFAULT_SELECTED))

\* the entry of a region whose sellers sold vals
region_entry(region, vals) ==
    [ region |-> region, HHI |-> squared_shares(vals, SumSeq(vals)),
      sales |-> SumSeq(vals), seller_sales |-> vals ]

\* tab6: for one region, the HHI over the sellers of that region; there is
\* no guard on a zero total
region_hhi(rows, region) ==
    region_entry(region,
        sales_by(GroupRows(rows, "region", region), "seller",
                 GroupKeys(GroupRows(rows, "region", region), "seller")))

region_rows(rows, keys) == [i \in 1..Len(keys) |-> region_hhi(rows, keys[i])]

\* hhi_data: the ten regions with the largest sales
hhi_data_of(rows) == Take(SortDesc(region_rows(rows, GroupKeys(rows, "region")), "sales"), TOP_N)

----------------------------------------------------------------------------
(* KPIs (lines 193-200) and tab_funnel (lines 44-49, 351-386) *)

\* x / y * 100 if y > 0 else 0
RateOrZero(x, y) == IF FGt(y, Num(0)) THEN Pct(x, y) ELSE Num(0)

\* the figures of the summary row
kpis(f) ==
    [ total_sales |-> SumOf(f, "paid"),
      order_count |-> Len(f),
      net_qty     |-> SumOf(f, "net"),
      avg_order   |-> IF Len(f) > 0 THEN FDiv(SumOf(f, "paid"), Num(Len(f))) ELSE Num(0),
      avg_margin  |-> RateOrZero(SumOf(f, "profit"), SumOf(f, "paid")),
      cancel_rate |-> RateOrZero(SumOf(f, "cancelled"), SumOf(f, "ordered")) ]

\* re.search(r'(\d+)', s).group(1): the first maximal run of digits of s,
\* << >> when s has no digit
FirstDigitRun(s) ==
    IF \A i \in 1..Len(s) : ~AllDigits(<<s[i]>>) THEN << >>
    ELSE LET i == CHOOSE a \in 1..Len(s) :
                      AllDigits(<<s[a]>>) /\ \A b \in 1..(a - 1) : ~AllDigits(<<s[b]>>)
             j == CHOOSE a \in 1..Len(s) :
                      /\ a >= i /\ AllDigits(SubSeq(s, i, a))
                      /\ (a = Len(s) \/ ~AllDigits(<<s[a + 1]>>))
         IN  SubSeq(s, i, j)

\* extract_numeric_value(val).  A text gives its first digit run (commas
\* removed) or 0.0; None gives 0.0; anything else goes through float(),
\* which returns a number as it is (NaN included) and raises TypeError on a
\* value of another type (ok = FALSE).
extract_numeric_value(c) ==
    IF c.t = "text" THEN [ok |-> TRUE, v |-> Num(DigitsValue(FirstDigitRun(RemoveChar(c.s, ","))))]
    ELSE IF c.t = "none" THEN [ok |-> TRUE, v |-> Num(0)]
    ELSE IF c.t = "object" THEN [ok |-> FALSE, v |-> NaN]
    ELSE [ok |-> TRUE, v |-> c.v]

\* column.apply(extract_numeric_value).sum()
extracted_sum(cells) == SumSeq([i \in 1..Len(cells) |-> extract_numeric_value(cells[i]).v])

FUNNEL_SHOWN       == "funnel"
FUNNEL_UNAVAILABLE == "unavailable"
NOT_RENDERED       == "not rendered"

\* variant: every rate guarded by the visit count alone
funnel_rates_guarded_by_visits(total_visits, total_clicks, total_orders) ==
    [ shown |-> FUNNEL_SHOWN,
      total_visits |-> total_visits, total_clicks |-> total_clicks, total_orders |-> total_orders,
      visit_to_click |-> RateOrZero(total_clicks, total_visits),
      click_to_order |-> IF FGt(total_visits, Num(0)) THEN Pct(total_orders, total_clicks) ELSE Num(0),
      overall_cvr    |-> RateOrZero(total_orders, total_visits) ]

\* lines 382-384
funnel_rates(total_visits, total_clicks, total_orders) ==
    [ shown |-> FUNNEL_SHOWN,
      total_visits |-> total_visits, total_clicks |-> total_clicks, total_orders |-> total_orders,
      visit_to_click |-> RateOrZero(total_clicks, total_visits),
      click_to_order |-> RateOrZero(total_orders, total_clicks),
      overall_cvr    |-> RateOrZero(total_orders, total_visits) ]

\* a funnel view without figures
NoFunnel(shown) ==
    [ shown |-> shown, total_visits |-> Num(0), total_clicks |-> Num(0), total_orders |-> Num(0),
      visit_to_click |-> Num(0), click_to_order |-> Num(0), overall_cvr |-> Num(0) ]

\* variant: the visit rows of every day
visits_of_all_days(visit_rows, dr) == Column(visit_rows, "dau")

\* the DAU cells of the visit rows inside the date range (v_mask)
visits_in_range(visit_rows, dr) ==
    Column(SelectSeq(visit_rows, LAMBDA r : r.date >= dr[1] /\ r.date <= dr[2]), "dau")

\* tab_funnel: the logs are tables (ok) or None
tab_funnel(lg, dr, f) ==
    IF lg.visit.ok /\ lg.click.ok
    THEN funnel_rates(extracted_sum(visits_in_range(lg.visit.rows, dr)),
                      extracted_sum(Column(lg.click.rows, "total")),
                      Num(Len(f)))
    ELSE NoFunnel(FUNNEL_UNAVAILABLE)

\* a log that could not be loaded, a log with rows
NoLog == [ok |-> FALSE, rows |-> << >>]
Log(rows) == [ok |-> TRUE, rows |-> rows]

----------------------------------------------------------------------------
(* the files of the data directory and the batch report
   (app_dashboard.py lines 52-70, 104-134; marketing_analysis_script.py
   lines 18-38, 76-112) *)

PRIMARY_1 == "data/preprocessed_data_1.csv"
PRIMARY   == "data/preprocessed_data.csv"
VISIT_1   == "data/salesvisit_1.csv"
CLICK_1   == "data/salesclick_1.csv"
CLICK     == "data/salesclick.csv"

DataFiles == {PRIMARY_1, PRIMARY, VISIT_1, CLICK_1, CLICK}

\* a file is not there, is there and cannot be read as a table, or is a table
MISSING    == "missing"
UNREADABLE == "unreadable"
TABLE      == "table"

FullDisk == [f \in DataFiles |-> TABLE]

NO_PATH == "None"

\* variant: only the unversioned file is looked for
base_path_only(d) == IF d[PRIMARY] # MISSING THEN PRIMARY ELSE NO_PATH

\* get_latest_data_path(): the versioned file when glob finds it, else the
\* unversioned one, else None
get_latest_data_path(d) ==
    IF d[PRIMARY_1] # MISSING THEN PRIMARY_1
    ELSE IF d[PRIMARY] # MISSING THEN PRIMARY
    ELSE NO_PATH

\* The two logs beside the primary file: one visit row per day, one click
\* row for the whole period.
VisitLog == Log(<< [date |-> 0, dau |-> TextCell(<<"7", "8", "0", " ", "(", "8", "9", ")">>)],
                   [date |-> 1, dau |-> TextCell(<<"1", ",", "2", "0", "0">>)] >>)
ClickLog == Log(<< [total |-> TextCell(<<"1", ",", "5", "0", "0", " ", "3", "1">>)] >>)

\* load_visit_data(): None when the file is missing or read_csv raises
load_visit_data(d) == IF d[VISIT_1] = TABLE THEN VisitLog ELSE NoLog

\* load_click_data(): the unversioned file is tried only when the versioned
\* one is missing
load_click_data(d) ==
    IF d[IF d[CLICK_1] # MISSING THEN CLICK_1 ELSE CLICK] = TABLE THEN ClickLog ELSE NoLog

load_logs(d) == [visit |-> load_visit_data(d), click |-> load_click_data(d)]

\* the batch report: its position, its two log tables, what it has created
BATCH_NOT_RUN == "not run"
BATCH_EXITED  == "exit() on line 32"
BATCH_DONE    == "done"

EMPTY_TABLE == "empty table"
UNSET       == "unset"

OUT_DIRS == {"docs/analysis/images", "data/analysis"}

OUT_FILES ==
    { "data/analysis/channel_analysis.csv", "data/analysis/region_analysis.csv",
      "docs/analysis/images/seller_sales_top10.png",
      "data/analysis/seller_comprehensive_metrics.csv" }

NotRun ==
    [pc |-> BATCH_NOT_RUN, df_click |-> UNSET, df_visit |-> UNSET, out |-> {}, seller_metrics |-> << >>]

\* lines 21-28: a log that cannot be read becomes pd.DataFrame()
read_or_empty(d, f) == IF d[f] = TABLE THEN TABLE ELSE EMPTY_TABLE

\* variant: every order of a customer counted as a reorder
reorder_count_all(order_count) == order_count

\* line 56: customer_stats['reorder_count'] = customer_stats['order_count'] - 1
reorder_count(order_count) == order_count - 1

\* lines 50-56: one row of customer_stats, for the orders of one seller and
\* one customer (count skips an empty order number)
customer_stat(uid, rows) ==
    [ uid |-> uid, order_count |-> CountOf(rows, "order_id"),
      reorder_count |-> reorder_count(CountOf(rows, "order_id")) ]

\* the rows of customer_stats of one seller: groupby drops the orders whose
\* UID is empty
customer_stats(own, uids) == [i \in 1..Len(uids) |-> customer_stat(uids[i], GroupRows(own, "uid", uids[i]))]

\* lines 72-73; 0 / 0 is NaN
rates(m) ==
    [ seller |-> m.seller, total_sales |-> m.total_sales, total_orders |-> m.total_orders,
      unique_customers |-> m.unique_customers,
      reordering_customers |-> m.reordering_customers, total_reorders |-> m.total_reorders,
      reorder_rate |-> FMul(FDiv(Num(m.reordering_customers), Num(m.unique_customers)), Num(100)),
      churn_rate |-> FMul(FSub(Num(1), FDiv(Num(m.reordering_customers), Num(m.unique_customers))),
                          Num(100)) ]

\* lines 59-71: the sums of one seller joined with reorder_summary, which
\* holds its customers with reorder_count > 0; a seller without such a
\* customer gets 0 from fillna(0)
seller_metric(seller, own, repeats) ==
    rates([ seller |-> seller,
            total_sales |-> SumSeq([i \in 1..Len(own) |-> own[i].paid.v]),
            total_orders |-> CountOf(own, "order_id"),
            unique_customers |-> NUniqueOf(own, "uid"),
            reordering_customers |-> Len(repeats),
            total_reorders |-> SumSeq([i \in 1..Len(repeats) |-> Num(repeats[i].reorder_count)]).n ])

repeat_customers(own) ==
    SelectSeq(customer_stats(own, GroupKeys(own, "uid")), LAMBDA c : c.reorder_count > 0)

seller_metrics_rows(rows, keys) ==
    [ i \in 1..Len(keys) |->
        seller_metric(keys[i], GroupRows(rows, "seller", keys[i]),
                      repeat_customers(GroupRows(rows, "seller", keys[i]))) ]

\* seller_metrics of the raw table df_sales (the script cleans nothing)
seller_metrics_of(rows) == seller_metrics_rows(rows, GroupKeys(rows, "seller"))

\* The script from its first line to its last: it exits on line 32 when
\* the primary file cannot be read, before any directory is made.
batch_script(d, df_sales) ==
    IF d[PRIMARY_1] # TABLE
    THEN [pc |-> BATCH_EXITED, df_click |-> UNSET, df_visit |-> UNSET, out |-> {},
          seller_metrics |-> << >>]
    ELSE [pc |-> BATCH_DONE, df_click |-> read_or_empty(d, CLICK_1),
          df_visit |-> read_or_empty(d, VISIT_1), out |-> OUT_DIRS \cup OUT_FILES,
          seller_metrics |-> seller_metrics_of(df_sales)]

----------------------------------------------------------------------------
(* one rendering pass of the dashboard (lines 143-927) *)

\* Where a pass ends.  An exception ends the script run: nothing after it is
\* computed.  (Line 338 of the file is read as the comment it stands for.)
PC_DONE           == "done"
PC_TAB1_ERROR     == "tab1: KeyError"
PC_CUSTOMER_ERROR == "tab_customer: ValueError"

View(p, f, rfm, deep, analysis, variety, hhi) ==
    [ pc |-> p, filtered_df |-> f, customer_rfm |-> rfm, seller_deep |-> deep,
      analysis_data |-> analysis, variety_stats |-> variety, hhi_data |-> hhi ]

\* tab2, tab5 and tab6 once tab_customer is through
render_sellers(f, rfm, deep) ==
    View(PC_DONE, f, rfm, deep, analysis_data_of(f, deep), variety_stats_of(f), hhi_data_of(f))

\* tab_customer: qcut fails on duplicate bin edges
render_customer(f, agg) ==
    IF qcut_raises(Len(agg))
    THEN View(PC_CUSTOMER_ERROR, f, agg, << >>, << >>, << >>, << >>)
    ELSE render_sellers(f, apply_segment(rfm_score(agg)), seller_deep_of(f))

\* tab1 looks the best weekday up in a dictionary, which fails when no row
\* is left (line 247)
render_tabs(f) ==
    IF f = << >>
    THEN View(PC_TAB1_ERROR, f, << >>, << >>, << >>, << >>, << >>)
    ELSE render_customer(f, customer_aggregate(f))

\* the pass over the cached dataset with the widgets' values
render(data, dr, sel_sellers, sel_varieties) ==
    render_tabs(filter_and_derive(data, dr, sel_sellers, sel_varieties))

VARIABLES
    raw,            \* the primary CSV file: a sequence of raw rows
    df,             \* load_data's cached result
    date_range,     \* the date_input widget: <<first day, last day>>
    sellers,        \* the seller multiselect: a set of filter labels
    varieties,      \* the variety multiselect
    passes,         \* widget changes so far in the session
    pc,             \* where the last pass (or step) ended
    filtered_df,    \* the tables of the last pass
    customer_rfm,
    seller_deep,
    analysis_data,
    variety_stats,
    hhi_data,
    logs,           \* load_visit_data's and load_click_data's cached results
    kpi,            \* the summary row of the last pass
    funnel,         \* the funnel view of the last pass
    disk,           \* the data directory: for each file, what is there
    batch           \* the batch report's run

vars == <<raw, df, date_range, sellers, varieties, passes, pc, filtered_df, customer_rfm,
          seller_deep, analysis_data, variety_stats, hhi_data, logs, kpi, funnel, disk, batch>>

\* widget changes followed in one session
MaxPasses == 2

min_date(data) == -MaxOf({-order_date(data[i]) : i \in 1..Len(data)})
max_date(data) == MaxOf({order_date(data[i]) : i \in 1..Len(data)})

seller_options(data)  == SeqToSet(filter_options(TopKeys(data, "seller")))
variety_options(data) == SeqToSet(filter_options(TopKeys(data, "variety")))

\* lines 158-159: the two filter columns added to the script's df
label_rows(data, top_s, top_v) ==
    [ i \in 1..Len(data) |->
        [ c \in DOMAIN data[i] \cup {"seller_filter", "variety_filter"} |->
            IF c = "seller_filter" THEN filter_label(data[i].seller, top_s)
            ELSE IF c = "variety_filter" THEN filter_label(data[i].variety, top_v)
            ELSE data[i][c] ] ]

with_filter_columns(data) == label_rows(data, TopKeys(data, "seller"), TopKeys(data, "variety"))

\* variant: the cache hands out the cached table itself, so the columns
\* added by the script stay in it
cache_shared(data, labelled) == labelled

\* st.cache_data (line 73) hands out a copy of the cached table on every
\* run: what the script adds to its df does not reach the cache
cache_after_pass(data, labelled) == data

\* the script run with the widget values dr, ss, vs (primed variables)
Shown(v) ==
    /\ pc' = v.pc
    /\ filtered_df' = v.filtered_df
    /\ customer_rfm' = v.customer_rfm
    /\ seller_deep' = v.seller_deep
    /\ analysis_data' = v.analysis_data
    /\ variety_stats' = v.variety_stats
    /\ hhi_data' = v.hhi_data

Pass(dr, ss, vs) ==
        /\ date_range' = dr /\ sellers' = ss /\ varieties' = vs
        /\ passes' = passes + 1
        /\ \E v \in {render(df, dr, ss, vs)} :
              /\ Shown(v)
              /\ kpi' = kpis(v.filtered_df)
              /\ funnel' = IF v.pc = PC_TAB1_ERROR THEN NoFunnel(NOT_RENDERED)
                            ELSE tab_funnel(logs, dr, v.filtered_df)
        /\ df' = cache_after_pass(df, with_filter_columns(df))
        /\ UNCHANGED <<raw, logs, disk, batch>>

\* the first run after the file is loaded: full date range, nothing selected
Showing(v) ==
    /\ pc = v.pc
    /\ filtered_df = v.filtered_df
    /\ customer_rfm = v.customer_rfm
    /\ seller_deep = v.seller_deep
    /\ analysis_data = v.analysis_data
    /\ variety_stats = v.variety_stats
    /\ hhi_data = v.hhi_data

FirstPass(file, lg) ==
    /\ raw = file
    /\ logs = lg
    /\ df = load_data(file)
    /\ date_range = <<min_date(df), max_date(df)>>
    /\ sellers = {} /\ varieties = {}
    /\ passes = 0
    /\ disk = FullDisk /\ batch = NotRun
    /\ \E v \in {render(df, date_range, sellers, varieties)} :
          /\ Showing(v)
          /\ kpi = kpis(v.filtered_df)
          /\ funnel = IF v.pc = PC_TAB1_ERROR THEN NoFunnel(NOT_RENDERED)
                       ELSE tab_funnel(logs, date_range, v.filtered_df)

IsDashboard == pc \in {PC_DONE, PC_TAB1_ERROR, PC_CUSTOMER_ERROR} /\ df # << >>

\* the user changes one widget; Streamlit runs the script again
ChangeDateRange ==
    /\ IsDashboard /\ passes < MaxPasses
    /\ \E a \in min_date(df)..max_date(df), b \in min_date(df)..max_date(df) :
          /\ a <= b /\ <<a, b>> # date_range
          /\ Pass(<<a, b>>, sellers, varieties)

ChangeSellers ==
    /\ IsDashboard /\ passes < MaxPasses
    /\ \E ss \in SUBSET seller_options(df) :
          ss # sellers /\ Pass(date_range, ss, varieties)

ChangeVarieties ==
    /\ IsDashboard /\ passes < MaxPasses
    /\ \E vs \in SUBSET variety_options(df) :
          vs # varieties /\ Pass(date_range, sellers, vs)

Next == ChangeDateRange \/ ChangeSellers \/ ChangeVarieties

----------------------------------------------------------------------------
(* input files of the dashboard *)

RawRow(seller, variety, region, channel, uid, order_id, ts, paid, supply, ordered, cancelled, net) ==
    [ seller |-> seller, variety |-> variety, region |-> region, channel |-> channel,
      uid |-> uid, order_id |-> order_id, ts |-> ts, paid |-> paid, supply |-> supply,
      ordered |-> ordered, cancelled |-> cancelled, net |-> net ]

N(i) == NumCell(Num(i))

\* Two-row files with numeric columns: an order of seller A on day 0 whose
\* amounts and quantities vary (a net quantity below 0 is a file whose
\* quantity columns disagree), then one plain order of seller B on day 1.
RowFiles ==
    { << RawRow("A", "V", "R1", "Web", "u1", "o1", 0, N(p), N(s), N(o), N(c), N(n)),
         RawRow("B", "V", "R1", "App", "u2", "o2", DayTicks, N(2000), N(500), N(1), N(0), N(1)) >> :
        p \in {0, 1000}, s \in {0, 400}, o \in {0, 1, 2}, c \in {0, 1}, n \in {-1, 0, 1, 2} }

\* Two-row files of seller A with text amounts ("1,000") and a net-quantity
\* column equal to ordered - cancelled; the customers differ, the second
\* order is one day later.
ScenarioRow(uid, oid, ts, p, s, q) ==
    RawRow("A", "V", "R1", "Web", uid, oid, ts, TextCell(p), TextCell(s),
           N(q[1]), N(q[2]), N(q[1] - q[2]))

ScenarioFiles ==
    { << ScenarioRow("u1", "o1", 0, p1, s1, q1), ScenarioRow("u2", "o2", DayTicks, p2, s2, q2) >> :
        p1 \in { <<"1", ",", "0", "0", "0">>, <<"2", ",", "0", "0", "0">> },
        s1 \in { <<"4", "0", "0">>, <<"5", "0", "0">> },
        q1 \in { <<2, 0>>, <<1, 1>> },
        p2 \in { <<"1", ",", "0", "0", "0">>, <<"2", ",", "0", "0", "0">> },
        s2 \in { <<"4", "0", "0">>, <<"5", "0", "0">> },
        q2 \in { <<2, 0>>, <<1, 1>> } }

Init == \E file \in RowFiles \cup ScenarioFiles :
            FirstPass(file, [visit |-> VisitLog, click |-> ClickLog])

Spec == Init /\ [][Next]_vars

----------------------------------------------------------------------------
(* segment_customer on its own: every score triple *)

PC_SCORED    == "tab_customer: scored"
PC_SEGMENTED == "tab_customer: segmented"

\* a row of customer_rfm that carries the scores R, F, M and no segment yet
ScoredRow(uid, R, F, M) ==
    [ uid |-> uid, Recency |-> Num(0), Frequency |-> Num(0), Monetary |-> Num(0),
      R_Score |-> R, F_Score |-> F, M_Score |-> M, Segment |-> "" ]

\* the pass stopped at a table that is not the dashboard's own
Detached(p, f, rfm) ==
    /\ raw = << >> /\ df = << >>
    /\ date_range = <<0, 0>> /\ sellers = {} /\ varieties = {}
    /\ passes = 0
    /\ disk = FullDisk /\ batch = NotRun
    /\ Showing(View(p, f, rfm, << >>, << >>, << >>, << >>))
    /\ logs = [visit |-> NoLog, click |-> NoLog]
    /\ kpi = kpis(f) /\ funnel = NoFunnel(NOT_RENDERED)

SegInit ==
    \E R \in 1..Q, F \in 1..Q, M \in 1..Q :
        Detached(PC_SCORED, << >>, << ScoredRow("u1", R, F, M) >>)

\* line 452: customer_rfm['Segment'] = customer_rfm.apply(segment_customer, axis=1)
SegmentCustomers ==
    /\ pc = PC_SCORED
    /\ pc' = PC_SEGMENTED
    /\ customer_rfm' = apply_segment(customer_rfm)
    /\ UNCHANGED <<raw, df, date_range, sellers, varieties, passes, filtered_df,
                   seller_deep, analysis_data, variety_stats, hhi_data, logs, kpi, funnel, disk, batch>>

SpecSeg == SegInit /\ [][SegmentCustomers]_vars

----------------------------------------------------------------------------
(* tab_customer step by step, on subsets of one to MaxCust customers *)

PC_TAB_CUSTOMER == "tab_customer"
PC_AGGREGATED   == "tab_customer: aggregated"

\* most customers of a subset
MaxCust == 6

Uids == << "u1", "u2", "u3", "u4", "u5", "u6", "u7", "u8" >>

\* What one customer ordered, as <<timestamp, paid amount>> per order: one
\* order on day 0, one larger order on day 1, or one order on each day.
Profiles ==
    { << <<0, 1000>> >>,
      << <<DayTicks, 2000>> >>,
      << <<0, 1000>>, <<DayTicks, 1000>> >> }

OrderRow(uid, o) ==
    RawRow("A", "V", "R1", "Web", uid, "o1", o[1], N(o[2]), N(400), N(1), N(0), N(1))

OrdersOfCustomer(uid, orders) == [j \in 1..Len(orders) |-> OrderRow(uid, orders[j])]

\* the file with the orders of customers 1..n, customer i ordering prof[i]
RECURSIVE CustomerFile(_, _)
CustomerFile(prof, n) ==
    IF n = 0 THEN << >>
    ELSE CustomerFile(prof, n - 1) \o OrdersOfCustomer(Uids[n], prof[n])

\* the pass has come to tab_customer with the whole file as filtered subset
AtCustomerTab(file) ==
    /\ raw = file
    /\ df = load_data(file)
    /\ date_range = <<min_date(df), max_date(df)>>
    /\ sellers = {} /\ varieties = {}
    /\ passes = 0
    /\ disk = FullDisk /\ batch = NotRun
    /\ filtered_df = filter_and_derive(df, date_range, sellers, varieties)
    /\ pc = PC_TAB_CUSTOMER
    /\ customer_rfm = << >> /\ seller_deep = << >> /\ analysis_data = << >>
    /\ variety_stats = << >> /\ hhi_data = << >>
    /\ logs = [visit |-> NoLog, click |-> NoLog]
    /\ kpi = kpis(filtered_df) /\ funnel = NoFunnel(FUNNEL_UNAVAILABLE)

RFMInit ==
    \E n \in 1..MaxCust : \E prof \in [1..n -> Profiles] :
        AtCustomerTab(CustomerFile(prof, n))

\* lines 424-430
AggregateCustomers ==
    /\ pc = PC_TAB_CUSTOMER
    /\ pc' = PC_AGGREGATED
    /\ customer_rfm' = customer_aggregate(filtered_df)
    /\ UNCHANGED <<raw, df, date_range, sellers, varieties, passes, filtered_df,
                   seller_deep, analysis_data, variety_stats, hhi_data, logs, kpi, funnel, disk, batch>>

\* line 441: customer_rfm = rfm_score(customer_rfm); a ValueError of qcut
\* ends the pass
ScoreCustomers ==
    /\ pc = PC_AGGREGATED
    /\ IF qcut_raises(Len(customer_rfm))
       THEN pc' = PC_CUSTOMER_ERROR /\ UNCHANGED customer_rfm
       ELSE pc' = PC_SCORED /\ customer_rfm' = rfm_score(customer_rfm)
    /\ UNCHANGED <<raw, df, date_range, sellers, varieties, passes, filtered_df,
                   seller_deep, analysis_data, variety_stats, hhi_data, logs, kpi, funnel, disk, batch>>

SpecRFM == RFMInit /\ [][AggregateCustomers \/ ScoreCustomers \/ SegmentCustomers]_vars

----------------------------------------------------------------------------
(* the two concentration indexes step by step, on subsets of one to
   MaxParts orders *)

PC_TAB_SELLER == "tab2"
PC_TAB_REGION == "tab6"

\* most orders of a subset
MaxParts == 3

\* An order of the subset: who sold it, through which channel, and what was
\* paid (a negative amount is a refund line; the loader lets it through).
Parts == [seller : {"A", "B"}, channel : {"Web", "App"}, paid : {-1000, 0, 1000}]

PartRow(i, part) ==
    RawRow(part.seller, "V", "R1", part.channel, Uids[i], "o1", 0,
           N(part.paid), N(400), N(1), N(0), N(1))

PartFile(parts) == [i \in 1..Len(parts) |-> PartRow(i, parts[i])]

\* the pass has come to the seller tab with the whole file as filtered subset
AtSellerTab(file) ==
    /\ raw = file
    /\ df = load_data(file)
    /\ date_range = <<min_date(df), max_date(df)>>
    /\ sellers = {} /\ varieties = {}
    /\ passes = 0
    /\ disk = FullDisk /\ batch = NotRun
    /\ filtered_df = filter_and_derive(df, date_range, sellers, varieties)
    /\ pc = PC_TAB_SELLER
    /\ customer_rfm = << >> /\ seller_deep = << >> /\ analysis_data = << >>
    /\ variety_stats = << >> /\ hhi_data = << >>
    /\ logs = [visit |-> NoLog, click |-> NoLog]
    /\ kpi = kpis(filtered_df) /\ funnel = NoFunnel(FUNNEL_UNAVAILABLE)

HHIInit ==
    \E n \in 1..MaxParts : \E parts \in [1..n -> Parts] : AtSellerTab(PartFile(parts))

\* lines 516-665: the seller summary, then the channel HHI of the
\* preselected sellers
SellerChannels ==
    /\ pc = PC_TAB_SELLER
    /\ pc' = PC_TAB_REGION
    /\ \E deep \in {seller_deep_of(filtered_df)} :
          /\ seller_deep' = deep
          /\ analysis_data' = analysis_data_of(filtered_df, deep)
    /\ UNCHANGED <<raw, df, date_range, sellers, varieties, passes, filtered_df,
                   customer_rfm, variety_stats, hhi_data, logs, kpi, funnel, disk, batch>>

\* lines 844-887: the seller HHI of the top regions
RegionSellers ==
    /\ pc = PC_TAB_REGION
    /\ pc' = PC_DONE
    /\ hhi_data' = hhi_data_of(filtered_df)
    /\ UNCHANGED <<raw, df, date_range, sellers, varieties, passes, filtered_df,
                   customer_rfm, seller_deep, analysis_data, variety_stats, logs, kpi, funnel, disk, batch>>

SpecHHI == HHIInit /\ [][SellerChannels \/ RegionSellers]_vars

----------------------------------------------------------------------------
(* tab_funnel on its own: one visit row, one click row, one or two orders *)

PC_TAB_FUNNEL   == "tab_funnel"
PC_FUNNEL_ERROR == "tab_funnel: TypeError"

\* Values that extract_numeric_value can be given.  read_csv yields texts,
\* numbers and NaN for an empty cell; None and a value of another type (a
\* list) are inputs of the function that no CSV cell produces.
NoneCell   == [t |-> "none", v |-> NaN, s |-> << >>]
ObjectCell == [t |-> "object", v |-> NaN, s |-> << >>]

LogCells ==
    { TextCell(<<"7", "8", "0", " ", "(", "8", "9", ")">>),
      TextCell(<<"1", "6", "6", "4", "9", " ", "1", "5", "5", "1", " ", "(", "9", ".", "3", "2", "%", ")">>),
      TextCell(<<"1", ",", "2", "0", "0">>),
      TextCell(<<"n", "/", "a">>),
      TextCell(<<"-", " ", "4", "2">>),
      TextCell(<< >>),
      TextCell(<<"0">>),
      NumCell(Num(5)), NaCell, NoneCell, ObjectCell }

\* the pass has come to tab_funnel: tab1 has rendered, so the filtered
\* subset has at least one order
AtFunnelTab(file, lg) ==
    /\ raw = file
    /\ df = load_data(file)
    /\ date_range = <<min_date(df), max_date(df)>>
    /\ sellers = {} /\ varieties = {}
    /\ passes = 0
    /\ disk = FullDisk /\ batch = NotRun
    /\ filtered_df = filter_and_derive(df, date_range, sellers, varieties)
    /\ pc = PC_TAB_FUNNEL
    /\ customer_rfm = << >> /\ seller_deep = << >> /\ analysis_data = << >>
    /\ variety_stats = << >> /\ hhi_data = << >>
    /\ logs = lg
    /\ kpi = kpis(filtered_df) /\ funnel = NoFunnel(NOT_RENDERED)

FunnelInit ==
    \E n \in 1..2, dau \in LogCells, total \in LogCells, there \in {<<TRUE, TRUE>>, <<TRUE, FALSE>>, <<FALSE, TRUE>>} :
        AtFunnelTab(PartFile([i \in 1..n |-> [seller |-> "A", channel |-> "Web", paid |-> 1000]]),
                    [visit |-> IF there[1] THEN Log(<< [date |-> 0, dau |-> dau] >>) ELSE NoLog,
                     click |-> IF there[2] THEN Log(<< [total |-> total] >>) ELSE NoLog])

\* float() of a value that is neither text, number nor None raises
funnel_raises(lg, dr) ==
    /\ lg.visit.ok /\ lg.click.ok
    /\ \/ \E i \in 1..Len(lg.click.rows) : ~extract_numeric_value(lg.click.rows[i].total).ok
       \/ \E i \in 1..Len(lg.visit.rows) :
              /\ lg.visit.rows[i].date >= dr[1] /\ lg.visit.rows[i].date <= dr[2]
              /\ ~extract_numeric_value(lg.visit.rows[i].dau).ok

\* lines 347-416
FunnelTab ==
    /\ pc = PC_TAB_FUNNEL
    /\ IF funnel_raises(logs, date_range)
       THEN pc' = PC_FUNNEL_ERROR /\ UNCHANGED funnel
       ELSE pc' = PC_TAB_CUSTOMER /\ funnel' = tab_funnel(logs, date_range, filtered_df)
    /\ UNCHANGED <<raw, df, date_range, sellers, varieties, passes, filtered_df, customer_rfm,
                   seller_deep, analysis_data, variety_stats, hhi_data, logs, kpi, disk, batch>>

SpecFunnel == FunnelInit /\ [][FunnelTab]_vars

----------------------------------------------------------------------------
(* the sidebar filters on their own (lines 155-186), on files with more
   sellers than the top list holds *)

PC_SIDEBAR  == "sidebar"
PC_FILTERED == "filtered"

\* sellers of the largest file
MaxSellers == 12

SellerNames ==
    << "S01", "S02", "S03", "S04", "S05", "S06", "S07", "S08", "S09", "S10", "S11", "S12", "S13" >>

\* One order per seller on day 0, the varieties alternating; the first
\* sellers sell 5000 each, the last four sell what tail gives; the last row
\* of the file is a second order of the first-listed seller on day 1.
\* backwards lists the sellers from the last name to the first.
SellerFile(n, tail, backwards) ==
    [ i \in 1..(n + 1) |->
        LET k == IF i > n THEN 1 ELSE i
            j == IF backwards THEN n + 1 - k ELSE k
        IN  RawRow(SellerNames[j], IF j % 2 = 1 THEN "V" ELSE "W", "R1", "Web", "u1", "o1",
                   IF i > n THEN DayTicks ELSE 0,
                   N(IF i > n THEN 1000 ELSE IF j > n - 4 THEN tail[j - (n - 4)] ELSE 5000),
                   N(400), N(1), N(0), N(1)) ]

\* the script has loaded the file and waits for the sidebar widgets
AtSidebar(file) ==
    /\ raw = file
    /\ df = load_data(file)
    /\ date_range = <<min_date(df), max_date(df)>>
    /\ sellers = {} /\ varieties = {}
    /\ passes = 0
    /\ disk = FullDisk /\ batch = NotRun
    /\ filtered_df = << >>
    /\ pc = PC_SIDEBAR
    /\ customer_rfm = << >> /\ seller_deep = << >> /\ analysis_data = << >>
    /\ variety_stats = << >> /\ hhi_data = << >>
    /\ logs = [visit |-> NoLog, click |-> NoLog]
    /\ kpi = kpis(<< >>) /\ funnel = NoFunnel(NOT_RENDERED)

TopInit ==
    \E n \in (MaxSellers - 1)..MaxSellers, tail \in [1..4 -> {1000, 2000}], backwards \in BOOLEAN :
        AtSidebar(SellerFile(n, tail, backwards))

\* lines 155-186 with the widget values dr, ss, vs
ApplyFilters ==
    /\ pc = PC_SIDEBAR
    /\ \E dr \in {<<min_date(df), max_date(df)>>, <<min_date(df), min_date(df)>>},
          ss \in {{}} \cup {{o} : o \in seller_options(df)},
          vs \in {{}} \cup {{o} : o \in variety_options(df)} :
            /\ date_range' = dr /\ sellers' = ss /\ varieties' = vs
            /\ filtered_df' = filter_and_derive(df, dr, ss, vs)
    /\ pc' = PC_FILTERED
    /\ UNCHANGED <<raw, df, passes, customer_rfm, seller_deep, analysis_data, variety_stats,
                   hhi_data, logs, kpi, funnel, disk, batch>>

SpecTop == TopInit /\ [][ApplyFilters]_vars

----------------------------------------------------------------------------
(* load_data on its own (lines 73-102), on files with malformed cells *)

PC_LOAD       == "load_data"
PC_LOADED     == "load_data: returned"
PC_LOAD_ERROR == "load_data: ValueError"

\* cells of a currency column: numbers (a refund is negative), an empty
\* cell, texts with separators and blanks, texts that are no number
MoneyCells ==
    { N(1000), N(-500), NaCell,
      TextCell(<<"1", ",", "0", "0", "0">>), TextCell(<<" ", "2", ",", "5", "0", "0", " ">>),
      TextCell(<<"1", "2", "x">>), TextCell(<<"-">>) }

\* cells of the three quantity columns: ordered, cancelled, ordered-cancelled
QtyCells ==
    { <<N(2), N(1), N(1)>>, <<N(2), N(1), N(2)>>, <<N(1), NaCell, N(1)>>,
      <<TextCell(<<"t", "w", "o">>), N(0), NaCell>>, <<TextCell(<<"3">>), N(1), TextCell(<<"2">>)>> }

\* one order whose cells vary, followed by one well-formed order
LoadFiles ==
    { << RawRow(lb[1], lb[2], lb[3], lb[4], "u1", "o1", 0, p, N(400), q[1], q[2], q[3]),
         RawRow("B", "W", "R2", "App", "u2", "o2", DayTicks, N(2000), s, N(1), N(0), N(1)) >> :
        lb \in {"A", NA} \X {"V", NA} \X {"R1", NA} \X {"Web", NA},
        p \in MoneyCells, s \in {N(500), TextCell(<<"5", "0", "0", "w", "o", "n">>)}, q \in QtyCells }

\* the script is about to call load_data on a readable file
AtLoad(file) ==
    /\ raw = file /\ df = << >>
    /\ date_range = <<0, 0>> /\ sellers = {} /\ varieties = {}
    /\ passes = 0
    /\ disk = FullDisk /\ batch = NotRun
    /\ pc = PC_LOAD
    /\ filtered_df = << >> /\ customer_rfm = << >> /\ seller_deep = << >>
    /\ analysis_data = << >> /\ variety_stats = << >> /\ hhi_data = << >>
    /\ logs = [visit |-> NoLog, click |-> NoLog]
    /\ kpi = kpis(<< >>) /\ funnel = NoFunnel(NOT_RENDERED)

LoadInit == \E file \in LoadFiles : AtLoad(file)

\* line 132: df = load_data(DATA_PATH)
LoadData ==
    /\ pc = PC_LOAD
    /\ IF load_raises(raw)
       THEN pc' = PC_LOAD_ERROR /\ UNCHANGED df
       ELSE pc' = PC_LOADED /\ df' = load_data(raw)
    /\ UNCHANGED <<raw, date_range, sellers, varieties, passes, filtered_df, customer_rfm,
                   seller_deep, analysis_data, variety_stats, hhi_data, logs, kpi, funnel, disk, batch>>

SpecLoad == LoadInit /\ [][LoadData]_vars

----------------------------------------------------------------------------
(* passes over files whose label cells may be empty *)

\* the files of LoadFiles with well-formed amounts and quantities
LabelFiles ==
    { file \in LoadFiles :
        /\ file[1].paid = N(1000) /\ file[2].supply = N(500)
        /\ file[1].ordered = N(2) /\ file[1].net = N(1) }

LabelInit == \E file \in LabelFiles : FirstPass(file, [visit |-> VisitLog, click |-> ClickLog])

SpecLabel == LabelInit /\ [][Next]_vars

----------------------------------------------------------------------------
(* the start of the two programs, over every content of the data directory *)

PC_START      == "start"
PC_NO_DATA    == "st.error: no data file"
PC_READ_ERROR == "load_data: read_csv error"

\* the dashboard has not run yet; raw is what the primary file holds
NotStarted(d, file) ==
    /\ disk = d /\ batch = NotRun
    /\ raw = IF d[PRIMARY_1] = MISSING /\ d[PRIMARY] = MISSING THEN << >> ELSE file
    /\ df = << >>
    /\ date_range = <<0, 0>> /\ sellers = {} /\ varieties = {}
    /\ passes = 0
    /\ pc = PC_START
    /\ filtered_df = << >> /\ customer_rfm = << >> /\ seller_deep = << >>
    /\ analysis_data = << >> /\ variety_stats = << >> /\ hhi_data = << >>
    /\ logs = [visit |-> NoLog, click |-> NoLog]
    /\ kpi = kpis(<< >>) /\ funnel = NoFunnel(NOT_RENDERED)

StartInit ==
    \E d \in [DataFiles -> {MISSING, UNREADABLE, TABLE}],
       file \in { << RawRow("A", "V", "R1", "Web", "u1", "o1", 0, N(1000), N(400), N(1), N(0), N(1)),
                     RawRow("B", "W", "R2", "App", "u2", "o2", DayTicks, N(2000), N(500), N(2), N(1), N(1)) >> } :
        NotStarted(d, file)

NothingShown ==
    UNCHANGED <<df, date_range, filtered_df, customer_rfm, seller_deep, analysis_data,
                variety_stats, hhi_data, kpi, funnel>>

\* lines 143-927 on the loaded table: full date range, nothing selected
FirstRun(data, dr, lg) ==
    /\ df' = data /\ date_range' = dr /\ logs' = lg
    /\ \E v \in {render(data, dr, {}, {})} :
          /\ Shown(v)
          /\ kpi' = kpis(v.filtered_df)
          /\ funnel' = IF v.pc = PC_TAB1_ERROR THEN NoFunnel(NOT_RENDERED)
                       ELSE tab_funnel(lg, dr, v.filtered_df)

LaunchWith(path) ==
    IF path = NO_PATH
    THEN pc' = PC_NO_DATA /\ logs' = load_logs(disk) /\ NothingShown
    ELSE IF disk[path] = UNREADABLE
    THEN pc' = PC_READ_ERROR /\ UNCHANGED logs /\ NothingShown
    ELSE \E data \in {load_data(raw)} :
            FirstRun(data, <<min_date(data), max_date(data)>>, load_logs(disk))

\* the first run of app_dashboard.py (lines 71-930)
Launch ==
    /\ pc = PC_START
    /\ LaunchWith(get_latest_data_path(disk))
    /\ UNCHANGED <<raw, sellers, varieties, passes, disk, batch>>

\* one run of marketing_analysis_script.py
BatchScript ==
    /\ batch.pc = BATCH_NOT_RUN
    /\ batch' = batch_script(disk, raw)
    /\ UNCHANGED <<raw, df, date_range, sellers, varieties, passes, pc, filtered_df, customer_rfm,
                   seller_deep, analysis_data, variety_stats, hhi_data, logs, kpi, funnel, disk>>

SpecStart == StartInit /\ [][Launch \/ BatchScript]_vars

----------------------------------------------------------------------------
(* the batch report on files of one to MaxOrders orders whose customer or
   order number may be empty *)

MaxOrders == 3

BatchRow(k) ==
    RawRow(k[1], "V", "R1", "Web", k[2], k[3], 0, N(1000), N(400), N(1), N(0), N(1))

\* seller, customer and order number of a row
BatchKinds == ({"A"} \X {"u1", "u2", NA} \X {"o1", NA}) \cup ({"B"} \X {"u1", NA} \X {"o1"})

BatchFiles ==
    UNION { { [i \in 1..n |-> BatchRow(kinds[i])] : kinds \in [1..n -> BatchKinds] } :
            n \in 1..MaxOrders }

BatchInit == \E file \in BatchFiles : NotStarted(FullDisk, file)

SpecBatch == BatchInit /\ [][BatchScript]_vars

----------------------------------------------------------------------------
(* properties of the row-level fields and of the seller summary, under Spec *)

\* the unit cost the rule prescribes: supply over ordered, 0 for no order
ExpectedUnit(r) == IF r.ordered = Num(0) THEN Num(0) ELSE FDiv(r.supply, r.ordered)

\* C1: every row of the filtered subset has unit_supply_price = supply /
\* ordered quantity (0 when the ordered quantity is 0) and profit = paid -
\* unit_supply_price * net quantity; the net quantity is not the divisor and
\* the ordered quantity is not the multiplier.
C1_UnitCostFromOrderedProfitFromNet ==
    \A i \in 1..Len(filtered_df) :
        /\ filtered_df[i].unit_supply_price = ExpectedUnit(filtered_df[i])
        /\ filtered_df[i].profit =
              FSub(filtered_df[i].paid, FMul(ExpectedUnit(filtered_df[i]), filtered_df[i].net))

\* a row ordered twice and kept once: unit cost 400/2, profit 1000 - 200*1
C1_Witness ==
    /\ passes > 0
    /\ \E i \in 1..Len(filtered_df) :
        /\ filtered_df[i].ordered = Num(2) /\ filtered_df[i].net = Num(1)
        /\ filtered_df[i].supply = Num(400) /\ filtered_df[i].paid = Num(1000)
        /\ filtered_df[i].unit_supply_price = Num(200)
        /\ filtered_df[i].profit = Num(800)

\* the two rows of the end-to-end scenario
ScenarioFile ==
    << ScenarioRow("u1", "o1", 0, <<"1", ",", "0", "0", "0">>, <<"4", "0", "0">>, <<2, 0>>),
       ScenarioRow("u2", "o2", DayTicks, <<"2", ",", "0", "0", "0">>, <<"5", "0", "0">>, <<1, 1>>) >>

\* the scenario went through a whole pass with both rows in the subset
ScenarioShown == raw = ScenarioFile /\ pc = PC_DONE /\ Len(filtered_df) = 2

SellerARow(sales, prof, margin) ==
    /\ Len(seller_deep) = 1
    /\ seller_deep[1].seller = "A"
    /\ seller_deep[1].sales = sales
    /\ seller_deep[1].profit = prof
    /\ seller_deep[1].margin_pct = margin

\* C2 (as computed): in the scenario the second row has net quantity 0, so
\* the row profits are 600 and 2000 and seller A has total_sales 3000,
\* total_profit 2600 and margin_pct 260/3 (86.67).
C2_ScenarioAsComputed ==
    ScenarioShown =>
        /\ filtered_df[1].profit = Num(600)
        /\ filtered_df[2].profit = Num(2000)
        /\ SellerARow(Num(3000), Num(2600), Frac(260, 3))

C2_Witness ==
    /\ ScenarioShown
    /\ filtered_df[1].paid = Num(1000) /\ filtered_df[2].paid = Num(2000)
    /\ filtered_df[2].net = Num(0)
    /\ seller_deep[1].sales = Num(3000)

\* C2 (as written): the row profits are 600 and 1500 and seller A has
\* total_sales 3000, total_profit 2100 and margin_pct 70.0.
C2_ScenarioAsWritten ==
    ScenarioShown =>
        /\ filtered_df[1].profit = Num(600)
        /\ filtered_df[2].profit = Num(1500)
        /\ SellerARow(Num(3000), Num(2100), Num(70))

\* C3: a row whose paid amount is 0 has margin_pct exactly 0 whatever its
\* profit, and no row has an infinite or not-a-number margin_pct.
C3_ZeroPaidZeroMargin ==
    \A i \in 1..Len(filtered_df) :
        /\ IsFin(filtered_df[i].margin_pct)
        /\ filtered_df[i].paid = Num(0) => filtered_df[i].margin_pct = Num(0)

\* nothing paid and a loss: -400 / 0
C3_Witness ==
    /\ passes > 0
    /\ \E i \in 1..Len(filtered_df) :
        /\ filtered_df[i].paid = Num(0)
        /\ filtered_df[i].profit = Num(-400)
        /\ filtered_df[i].margin_pct = Num(0)

\* C4: every ratio of a grouped summary is 0 when its denominator is 0:
\* seller margin_pct when total sales are 0, cancel_rate when the ordered
\* quantity is 0, repurchase_index when there is no customer, variety
\* margin_pct when total sales are 0.
C4_GroupRatioZeroOnZeroDenominator ==
    /\ \A i \in 1..Len(seller_deep) :
          /\ seller_deep[i].sales = Num(0) => seller_deep[i].margin_pct = Num(0)
          /\ seller_deep[i].ordered = Num(0) => seller_deep[i].cancel_rate = Num(0)
          /\ seller_deep[i].unique_customers = 0 => seller_deep[i].repurchase_index = Num(0)
    /\ \A i \in 1..Len(variety_stats) :
          variety_stats[i].sales = Num(0) => variety_stats[i].margin_pct = Num(0)

Segments == {SEG_VIP, SEG_LOYAL, SEG_NEW, SEG_AT_RISK, SEG_REGULAR}

\* C6: for every non-empty filtered subset, whatever the number of its
\* customers, the pass completes the RFM scoring and every customer of the
\* subset has scores in 1..5 and one of the five segments.
C6_SegmentationTotal ==
    filtered_df # << >> =>
        /\ pc = PC_DONE
        /\ Len(customer_rfm) = NUniqueOf(filtered_df, "uid")
        /\ \A i \in 1..Len(customer_rfm) :
              /\ customer_rfm[i].R_Score \in 1..Q
              /\ customer_rfm[i].F_Score \in 1..Q
              /\ customer_rfm[i].M_Score \in 1..Q
              /\ customer_rfm[i].Segment \in Segments

----------------------------------------------------------------------------
(* properties of segment_customer, under SpecSeg *)

\* the ordered rule list: <<condition, label>>
SegmentRules(R, total) ==
    << <<total >= 13, SEG_VIP>>,
       <<total >= 10, SEG_LOYAL>>,
       <<R >= 4, SEG_NEW>>,
       <<R <= 2, SEG_AT_RISK>>,
       <<TRUE, SEG_REGULAR>> >>

FirstMatch(rules) ==
    rules[CHOOSE i \in 1..Len(rules) : rules[i][1] /\ \A j \in 1..(i - 1) : ~rules[j][1]][2]

\* C5: the segment of every score triple is the first matching label of the
\* ordered rules (total >= 13 VIP, total >= 10 Loyal, R >= 4 New, R <= 2
\* At-risk, else Regular), and F and M count only through the total.
C5_FirstMatchingRule ==
    pc = PC_SEGMENTED =>
        \A i \in 1..Len(customer_rfm) :
            /\ customer_rfm[i].Segment =
                  FirstMatch(SegmentRules(customer_rfm[i].R_Score,
                      customer_rfm[i].R_Score + customer_rfm[i].F_Score + customer_rfm[i].M_Score))
            /\ \A F2 \in 1..Q, M2 \in 1..Q :
                  F2 + M2 = customer_rfm[i].F_Score + customer_rfm[i].M_Score
                      => segment_customer(customer_rfm[i].R_Score, F2, M2) = customer_rfm[i].Segment

\* a recent customer whose total is 10: Loyal comes before New
C5_Witness ==
    /\ pc = PC_SEGMENTED
    /\ customer_rfm[1].R_Score = 5 /\ customer_rfm[1].F_Score = 4 /\ customer_rfm[1].M_Score = 1
    /\ customer_rfm[1].Segment = SEG_LOYAL

----------------------------------------------------------------------------
(* properties of the RFM scores, under SpecRFM *)

Measures   == << "Recency", "Frequency", "Monetary" >>
ScoreNames == << "R_Score", "F_Score", "M_Score" >>

Scored == pc \in {PC_SCORED, PC_SEGMENTED}

\* the customers whose score sc is k
Bucket(sc, k) == {i \in 1..Len(customer_rfm) : customer_rfm[i][sc] = k}

DistinctRanks(vals) ==
    \A i \in 1..Len(vals), j \in 1..Len(vals) :
        i # j => rank_first(vals, i) # rank_first(vals, j)

\* C7: with at least 5 customers, for each of Recency, Frequency and
\* Monetary the customers get distinct ranks even when raw values are equal,
\* all 5 score buckets are non-empty, and two buckets differ in size by at
\* most 1.
C7_FiveEvenBuckets ==
    (Scored /\ Len(customer_rfm) >= Q) =>
        \A m \in 1..Len(Measures) :
            /\ DistinctRanks(Column(customer_rfm, Measures[m]))
            /\ \A k \in 1..Q : Bucket(ScoreNames[m], k) # {}
            /\ \A k \in 1..Q, l \in 1..Q :
                  Cardinality(Bucket(ScoreNames[m], k)) - Cardinality(Bucket(ScoreNames[m], l)) <= 1

\* six customers who all ordered once: one bucket of two, four of one
C7_Witness ==
    /\ Scored /\ Len(customer_rfm) = Q + 1
    /\ \A i \in 1..Len(customer_rfm) : customer_rfm[i].Frequency = Num(1)
    /\ \E k \in 1..Q : Cardinality(Bucket("F_Score", k)) = 2

\* C8: a smaller recency never has a lower R score, a smaller frequency
\* (monetary) never has a higher F (M) score; with at least 5 customers a
\* customer with the smallest recency has R score 5 and one with the
\* largest recency has R score 1.
C8_RecencyInverted ==
    Scored =>
        /\ \A a \in 1..Len(customer_rfm), b \in 1..Len(customer_rfm) :
              /\ FLt(customer_rfm[a].Recency, customer_rfm[b].Recency)
                    => customer_rfm[a].R_Score >= customer_rfm[b].R_Score
              /\ FLt(customer_rfm[a].Frequency, customer_rfm[b].Frequency)
                    => customer_rfm[a].F_Score <= customer_rfm[b].F_Score
              /\ FLt(customer_rfm[a].Monetary, customer_rfm[b].Monetary)
                    => customer_rfm[a].M_Score <= customer_rfm[b].M_Score
        /\ Len(customer_rfm) >= Q =>
              /\ \E a \in 1..Len(customer_rfm) :
                    /\ customer_rfm[a].R_Score = 5
                    /\ \A b \in 1..Len(customer_rfm) :
                          FLe(customer_rfm[a].Recency, customer_rfm[b].Recency)
              /\ \E a \in 1..Len(customer_rfm) :
                    /\ customer_rfm[a].R_Score = 1
                    /\ \A b \in 1..Len(customer_rfm) :
                          FLe(customer_rfm[b].Recency, customer_rfm[a].Recency)

\* five customers or more, one seen a day later than another and ordering
\* more often: R 5 against R 1, F 5 against F 1
C8_Witness ==
    /\ Scored /\ Len(customer_rfm) >= Q
    /\ \E a \in 1..Len(customer_rfm), b \in 1..Len(customer_rfm) :
          /\ customer_rfm[a].Recency = Num(1) /\ customer_rfm[b].Recency = Num(2)
          /\ customer_rfm[a].R_Score = 5 /\ customer_rfm[b].R_Score = 1
          /\ customer_rfm[a].Frequency = Num(2) /\ customer_rfm[b].Frequency = Num(1)
          /\ customer_rfm[a].F_Score = 5 /\ customer_rfm[b].F_Score = 1

----------------------------------------------------------------------------
(* properties of the concentration indexes, under SpecHHI *)

\* a cleaned dataset in the specification's sense: no negative paid amount
NoNegativePaid == \A i \in 1..Len(filtered_df) : FGe(filtered_df[i].paid, Num(0))

\* one sub-entity holds the whole of a non-zero total
HoldsAll(vals, total) == total # Num(0) /\ \E i \in 1..Len(vals) : vals[i] = total

HHIWithinRange(hhi, vals, total) ==
    /\ FGe(hhi, Num(0)) /\ FLe(hhi, Num(10000))
    /\ hhi = Num(10000) <=> HoldsAll(vals, total)
    /\ total = Num(0) => hhi = Num(0)

SpecBand(hhi) ==
    IF FGt(hhi, Num(5000)) THEN BAND_HIGH
    ELSE IF FLt(hhi, Num(2000)) THEN BAND_FRAGMENTED
    ELSE BAND_BALANCED

\* C10: every HHI is in one band, high concentration above 5000, fragmented
\* below 2000, balanced otherwise (5000 and 2000 included), and the band of
\* the advice shown agrees with the band the caption beside the figure
\* gives that HHI.
C10_BandsAgree ==
    NoNegativePaid =>
        \A i \in 1..Len(analysis_data) :
            /\ analysis_data[i].strategy = SpecBand(analysis_data[i].HHI)
            /\ analysis_data[i].strategy = analysis_data[i].caption

----------------------------------------------------------------------------
(* properties of tab_funnel, under SpecFunnel *)

IsDigit(ch) == AllDigits(<<ch>>)

\* x is what the extraction is stated to return for the value c: for a
\* text, the first contiguous run of digits once the commas are removed, 0
\* when there is none; 0 for a value that is neither text nor number
ExtractsAsStated(c, x) ==
    IF c.t = "text"
    THEN \E t \in {RemoveChar(c.s, ",")} :
            IF \A i \in 1..Len(t) : ~IsDigit(t[i]) THEN x = Num(0)
            ELSE \E i \in 1..Len(t), j \in 1..Len(t) :
                    /\ i <= j
                    /\ \A a \in 1..j : IsDigit(t[a]) <=> a >= i
                    /\ (j = Len(t) \/ ~IsDigit(t[j + 1]))
                    /\ x = Num(DigitsValue(SubSeq(t, i, j)))
    ELSE c.t \in {"none", "object"} => x = Num(0)

FunnelTabDone == pc # PC_TAB_FUNNEL /\ logs.visit.ok /\ logs.click.ok

StatedRate(x, y) == IF y.n = 0 THEN Num(0) ELSE Frac(100 * x.n * y.d, x.d * y.n)

\* C12: the funnel shows visit-to-click = clicks / visits * 100,
\* click-to-order = orders / clicks * 100 and visit-to-order = orders /
\* visits * 100, with orders the row count of the filtered subset; each rate
\* is 0 when its own denominator is 0, whatever the other counts are.
C12_FunnelRates ==
    funnel.shown = FUNNEL_SHOWN =>
        /\ funnel.total_orders = Num(Len(filtered_df))
        /\ funnel.visit_to_click = StatedRate(funnel.total_clicks, funnel.total_visits)
        /\ funnel.click_to_order = StatedRate(funnel.total_orders, funnel.total_clicks)
        /\ funnel.overall_cvr = StatedRate(funnel.total_orders, funnel.total_visits)

\* a funnel with visits and orders and no click: only the click-to-order
\* rate has a zero denominator
C12_Witness ==
    /\ pc = PC_TAB_CUSTOMER /\ funnel.shown = FUNNEL_SHOWN
    /\ funnel.total_visits = Num(780) /\ funnel.total_clicks = Num(0)
    /\ funnel.total_orders = Num(2)
    /\ funnel.click_to_order = Num(0) /\ funnel.overall_cvr = Frac(200, 780)

----------------------------------------------------------------------------
(* properties of the sidebar filters, under SpecTop *)

KeysOf(f) == {df[i][f] : i \in 1..Len(df)}

\* total sales of key x of column f over the whole loaded dataset
TotalSales(f, x) == SumSeq([i \in 1..Len(df) |-> IF df[i][f] = x THEN df[i].paid ELSE Num(0)])

\* keys that are in (resp. out of) every choice of the 10 largest of the
\* table tbl of total sales
SurelyTop(tbl) ==
    {x \in DOMAIN tbl : Cardinality({y \in DOMAIN tbl \ {x} : FGe(tbl[y], tbl[x])}) < TOP_N}
SurelyOut(tbl) ==
    {x \in DOMAIN tbl : Cardinality({y \in DOMAIN tbl : FGt(tbl[y], tbl[x])}) >= TOP_N}

TopChoices(sure, open, size) ==
    { sure \cup T : T \in {T \in SUBSET open : Cardinality(sure \cup T) = size} }

TopSetsOf(tbl, sure, out) ==
    TopChoices(sure, DOMAIN tbl \ (sure \cup out),
               IF Cardinality(DOMAIN tbl) < TOP_N THEN Cardinality(DOMAIN tbl) ELSE TOP_N)

TopSetsIn(tbl) == TopSetsOf(tbl, SurelyTop(tbl), SurelyOut(tbl))

\* the sets of 10 keys (all keys when there are fewer) with the largest
\* total sales
TopSets(f) == TopSetsIn([x \in KeysOf(f) |-> TotalSales(f, x)])

LabelOf(x, top) == IF x \in top THEN x ELSE OTHER_LABEL

\* the columns of the loaded dataset
Loaded(r) == [c \in DOMAIN df[1] |-> r[c]]

\* the rows of the loaded dataset that the widget state selects when the
\* top lists are topS and topV
Selected(topS, topV) ==
    SelectSeq(df, LAMBDA r :
        /\ order_date(r) >= date_range[1] /\ order_date(r) <= date_range[2]
        /\ (sellers # {} => LabelOf(r.seller, topS) \in sellers)
        /\ (varieties # {} => LabelOf(r.variety, topV) \in varieties))

\* C13: every seller and every variety has one filter label, its own name
\* when it is among the 10 with the largest total sales over the whole
\* loaded dataset and the catch-all label otherwise; the filtered subset is
\* the rows of the date range whose labels are selected, so the catch-all
\* label keeps exactly the rows outside the top 10 and a top-10 name exactly
\* that seller's rows.
C13_TopTenPartition ==
    pc = PC_FILTERED =>
        \E topS \in TopSets("seller"), topV \in TopSets("variety") :
            /\ seller_options(df) = topS \cup {OTHER_LABEL}
            /\ variety_options(df) = topV \cup {OTHER_LABEL}
            /\ [i \in 1..Len(filtered_df) |-> Loaded(filtered_df[i])] = Selected(topS, topV)

\* twelve sellers, the catch-all label selected: the orders of the two
\* sellers outside the top 10 are kept
C13_Witness ==
    /\ pc = PC_FILTERED /\ sellers = {OTHER_LABEL} /\ varieties = {}
    /\ Cardinality(KeysOf("seller")) = MaxSellers
    /\ Len(filtered_df) = MaxSellers - TOP_N
    /\ \A i \in 1..Len(filtered_df) : filtered_df[i].seller \notin seller_options(df)

\* the catch-all seller label alone is selected over the whole period: the
\* filtered subset holds the orders of the sellers outside the top 10
CatchAllSelected ==
    /\ pc = PC_FILTERED /\ sellers = {OTHER_LABEL} /\ varieties = {}
    /\ date_range = <<min_date(df), max_date(df)>>

OutsideTop == {filtered_df[i].seller : i \in 1..Len(filtered_df)}
InsideTop  == KeysOf("seller") \ OutsideTop

FirstRowOf(x) == CHOOSE i \in 1..Len(df) : df[i].seller = x /\ \A j \in 1..(i - 1) : df[j].seller # x

\* C14 (as computed): the top 10 are the keys with the largest total sales,
\* and among keys with equal total sales the one that sorts first (the
\* earlier row of the grouped table, which groupby orders by key) is taken.
C14_TiesByKeyOrder ==
    CatchAllSelected =>
        \A a \in InsideTop, b \in OutsideTop :
            \/ FGt(TotalSales("seller", a), TotalSales("seller", b))
            \/ /\ TotalSales("seller", a) = TotalSales("seller", b)
               /\ KeyRank(a) < KeyRank(b)

\* sellers with equal sales on both sides of the cut, in a file that lists
\* the seller left out before the seller taken
C14_Witness ==
    /\ CatchAllSelected
    /\ \E a \in InsideTop, b \in OutsideTop :
          /\ TotalSales("seller", a) = TotalSales("seller", b)
          /\ FirstRowOf(b) < FirstRowOf(a)

\* C14 (as stated): among keys with equal total sales the one whose first
\* row comes earlier in the dataset is taken.
C14_TiesByRowOrder ==
    CatchAllSelected =>
        \A a \in InsideTop, b \in OutsideTop :
            \/ FGt(TotalSales("seller", a), TotalSales("seller", b))
            \/ /\ TotalSales("seller", a) = TotalSales("seller", b)
               /\ FirstRowOf(a) < FirstRowOf(b)

----------------------------------------------------------------------------
(* properties of load_data, under SpecLoad *)

\* C15: after load_data every row has paid >= 0, a net quantity equal to
\* ordered - cancelled, and a seller, a variety, a region and a channel that
\* are not missing.  (Violated: region and channel are not filled, the net
\* quantity is the file's column, a negative or missing amount is kept.)
C15_CleanRows ==
    pc = PC_LOADED =>
        \A i \in 1..Len(df) :
            /\ FGe(df[i].paid, Num(0))
            /\ df[i].net = FSub(df[i].ordered, df[i].cancelled)
            /\ df[i].seller # NA /\ df[i].variety # NA
            /\ df[i].region # NA /\ df[i].channel # NA

\* a currency cell that is a number once separators and surrounding blanks
\* are removed
Parsable(c) == c.t = "num" \/ (c.t = "text" /\ PyFloat(RemoveChar(c.s, ",")).ok)

\* C16: load_data returns for every readable file; a currency text that is
\* no number after removing separators and surrounding blanks becomes 0.0, a
\* missing currency value becomes 0.0, an unparsable quantity becomes 0.
\* (Violated: float() raises on such a text, a missing amount stays NaN.)
C16_CleaningNeverFails ==
    pc # PC_LOAD =>
        /\ pc = PC_LOADED
        /\ \A i \in 1..Len(df) :
              /\ ~Parsable(raw[i].paid) => df[i].paid = Num(0)
              /\ ~Parsable(raw[i].supply) => df[i].supply = Num(0)
              /\ (raw[i].ordered.t = "text" /\ ~PyFloat(raw[i].ordered.s).ok) => df[i].ordered = Num(0)
              /\ raw[i].cancelled.t = "na" => df[i].cancelled = Num(0)

----------------------------------------------------------------------------
(* properties of the grouped tables, under SpecLabel *)

\* C17: no grouping drops a row, whatever cells were empty in the file: the
\* sales of the seller groups, of the variety groups and of the region
\* groups each sum to the total sales of the filtered subset, and the order
\* counts of the seller groups and of the variety groups sum to its row
\* count.  (Violated: an order with an empty region cell is in no region
\* group.)
C17_GroupsCoverSubset ==
    pc = PC_DONE =>
        /\ SumOf(seller_deep, "sales") = SumOf(filtered_df, "paid")
        /\ SumSeq([i \in 1..Len(seller_deep) |-> Num(seller_deep[i].order_count)]) = Num(Len(filtered_df))
        /\ SumOf(variety_stats, "sales") = SumOf(filtered_df, "paid")
        /\ SumSeq([i \in 1..Len(variety_stats) |-> Num(variety_stats[i].order_count)]) = Num(Len(filtered_df))
        /\ SumOf(hhi_data, "sales") = SumOf(filtered_df, "paid")

----------------------------------------------------------------------------
(* properties of whole passes, under Spec *)

KpisAllZero ==
    /\ kpi.total_sales = Num(0) /\ kpi.order_count = 0 /\ kpi.avg_order = Num(0)
    /\ kpi.avg_margin = Num(0) /\ kpi.cancel_rate = Num(0)

\* C20: a filter state that selects no row is no error: the pass runs to
\* its end, the KPIs are all 0 and the tabs show empty tables; a subset with
\* fewer than 3 sellers or a single region is rendered to the end as well.
\* (Violated: with no row left the KPIs are 0, but tab1 raises and the pass
\* stops there.)
C20_EmptySubsetRenders ==
    /\ filtered_df = << >> =>
          /\ pc = PC_DONE /\ KpisAllZero
          /\ customer_rfm = << >> /\ seller_deep = << >> /\ analysis_data = << >>
          /\ variety_stats = << >> /\ hhi_data = << >>
    /\ (filtered_df # << >>
          /\ \/ Cardinality({filtered_df[i].seller : i \in 1..Len(filtered_df)}) < 3
             \/ Cardinality({filtered_df[i].region : i \in 1..Len(filtered_df)}) = 1)
       => pc = PC_DONE

\* the view of one pass over the freshly loaded file with the widgets'
\* present values
FreshPassShown(v) ==
    /\ Showing(v)
    /\ kpi = kpis(v.filtered_df)
    /\ funnel = IF v.pc = PC_TAB1_ERROR THEN NoFunnel(NOT_RENDERED)
                ELSE tab_funnel(logs, date_range, v.filtered_df)

\* C19: after any sequence of filter changes the cached dataset is still
\* what load_data returned for the file, and the derived rows, every
\* aggregate, the KPIs and the funnel are those of a single pass over the
\* freshly loaded file with the present filter state.
C19_PassIsFunctionOfFilters ==
    /\ df = load_data(raw)
    /\ \E v \in {render(load_data(raw), date_range, sellers, varieties)} : FreshPassShown(v)

\* two widget changes later, with sellers and a variety selected
C19_Witness ==
    /\ passes >= 2 /\ pc = PC_DONE
    /\ sellers # {} /\ varieties # {} /\ Len(filtered_df) = Len(raw)

----------------------------------------------------------------------------
(* properties of the start of the two programs, under SpecStart *)

NoPrimaryFound == disk[PRIMARY_1] = MISSING /\ disk[PRIMARY] = MISSING

\* the dashboard's primary file (the versioned one when there is one) is a
\* table
PrimaryRead ==
    \/ disk[PRIMARY_1] = TABLE
    \/ disk[PRIMARY_1] = MISSING /\ disk[PRIMARY] = TABLE

\* the visit log, or the click log the dashboard looks at, is missing or
\* unreadable
SomeLogUnavailable ==
    \/ disk[VISIT_1] # TABLE
    \/ disk[CLICK_1] = UNREADABLE
    \/ disk[CLICK_1] = MISSING /\ disk[CLICK] # TABLE

\* what a pass shows apart from the funnel is what it shows for this file
\* with nothing selected
OtherViewsAsUsual(v) == Showing(v) /\ kpi = kpis(v.filtered_df)

----------------------------------------------------------------------------
(* the segments over all score triples, under SpecSeg *)

\* the segment is what is stated for the scores R, F, M
SegmentAsStated(seg, R, F, M) ==
    /\ seg = SEG_REGULAR <=> (R = 3 /\ R + F + M <= 9)
    /\ seg = SEG_NEW <=> (R >= 4 /\ R + F + M <= 9)
    /\ seg = SEG_AT_RISK <=> (R <= 2 /\ R + F + M <= 9)
    /\ (R <= 2 /\ R + F + M >= 10) => seg = SEG_LOYAL
    /\ seg = SEG_VIP => (R >= 3 /\ F >= 3 /\ M >= 3)

\* C21: over the score triples in 1..5 every one of the five segments is
\* taken by some triple; below a total of 10 the segment is decided by R
\* alone (Regular exactly for R = 3, New exactly for R >= 4, At-risk exactly
\* for R <= 2, each with total <= 9); a customer with R <= 2 and a total of
\* 10 or more is Loyal, not At-risk; a VIP has R, F and M all >= 3.
C21_SegmentsByRecencyBelowTen ==
    pc = PC_SEGMENTED =>
        /\ \A i \in 1..Len(customer_rfm) :
              SegmentAsStated(customer_rfm[i].Segment, customer_rfm[i].R_Score,
                              customer_rfm[i].F_Score, customer_rfm[i].M_Score)
        /\ \A seg \in Segments :
              \E R \in 1..Q, F \in 1..Q, M \in 1..Q : segment_customer(R, F, M) = seg

\* a customer last seen long ago with the highest frequency and amount
C21_Witness ==
    /\ pc = PC_SEGMENTED
    /\ customer_rfm[1].R_Score = 2 /\ customer_rfm[1].F_Score = 5 /\ customer_rfm[1].M_Score = 5
    /\ customer_rfm[1].Segment = SEG_LOYAL

----------------------------------------------------------------------------
(* the seller metrics of the batch report, under SpecBatch *)

OrdersOf(seller) == GroupRows(raw, "seller", seller)

\* the orders of a seller that carry both a customer and an order number, and
\* the customers they belong to
IdentifiedOrders(own) == {i \in 1..Len(own) : own[i].uid # NA /\ own[i].order_id # NA}
CountedCustomers(own) == {own[i].uid : i \in IdentifiedOrders(own)}

RatesAsStated(m) ==
    /\ m.reordering_customers <= m.unique_customers
    /\ FGe(m.reorder_rate, Num(0)) /\ FLe(m.reorder_rate, Num(100))
    /\ FGe(m.churn_rate, Num(0)) /\ FLe(m.churn_rate, Num(100))
    /\ FAdd(m.reorder_rate, m.churn_rate) = Num(100)
    /\ m.reordering_customers = 0 =>
          /\ m.total_reorders = 0
          /\ m.reorder_rate = Num(0)
          /\ m.churn_rate = Num(100)

ReordersOfIdentifiedOrders(m, own) ==
    /\ m.total_reorders = Cardinality(IdentifiedOrders(own)) - Cardinality(CountedCustomers(own))
    /\ Cardinality(IdentifiedOrders(own)) = Len(own) =>
          m.total_reorders = m.total_orders - m.unique_customers

BatchDone == batch.pc = BATCH_DONE

----------------------------------------------------------------------------
(* the three counts of the funnel and the filters, under Spec *)

FunnelShown == funnel.shown = FUNNEL_SHOWN

\* the first digit run of every cell of a log column, added up
LogTotal(rows, col) == SumSeq([i \in 1..Len(rows) |-> extract_numeric_value(rows[i][col]).v])

VisitsOfPeriod(dr) ==
    LogTotal(SelectSeq(logs.visit.rows, LAMBDA r : dr[1] <= r.date /\ r.date <= dr[2]), "dau")

\* the orders of the loaded file that pass the three filters
OrdersSelected ==
    { i \in 1..Len(df) :
        /\ date_range[1] <= order_date(df[i]) /\ order_date(df[i]) <= date_range[2]
        /\ sellers # {} =>
              filter_label(df[i].seller, TopKeys(df, "seller")) \in sellers
        /\ varieties # {} =>
              filter_label(df[i].variety, TopKeys(df, "variety")) \in varieties }

FunnelCountsAsStated ==
    FunnelShown =>
        /\ funnel.total_orders = Num(Cardinality(OrdersSelected))
        /\ funnel.total_visits = VisitsOfPeriod(date_range)
        /\ funnel.total_clicks = LogTotal(logs.click.rows, "total")

\* from one shown funnel to the next: the clicks stay, and the visits stay
\* unless the date range is what changed
FilterChangeKeepsClicks ==
    (FunnelShown /\ FunnelShown') =>
        /\ funnel'.total_clicks = funnel.total_clicks
        /\ date_range' = date_range => funnel'.total_visits = funnel.total_visits

\* C23: whenever the funnel is shown, total_orders is the number of orders
\* inside the date range that pass the seller and variety selections,
\* total_visits is the sum over the visit rows inside the date range, whatever
\* sellers and varieties are selected, and total_clicks is the sum over the
\* whole click log; a filter change leaves total_clicks as it was, and leaves
\* total_visits as it was when the date range is not what changed.
C23_FunnelCountsAndFilters == []FunnelCountsAsStated /\ [][FilterChangeKeepsClicks]_vars

\* the second day alone and its seller selected: one order, the visits of
\* that day, the clicks of the whole log
C23_Witness ==
    /\ passes >= 2 /\ FunnelShown
    /\ date_range = <<1, 1>> /\ sellers = {"B"}
    /\ funnel.total_orders = Num(1)
    /\ funnel.total_visits = Num(1200)
    /\ funnel.total_clicks = Num(1500)

============================================================================
